---- MODULE Spec2Model ----
(***************************************************************************)
(* Finance-Tracker: the ledger store (transactions, goals, categories) and *)
(* its CSV codec, as implemented in the App component.                     *)
(*                                                                         *)
(* Text is modelled character by character: a string is a sequence of      *)
(* one-character strings, so that split, trim, toLowerCase, startsWith,    *)
(* slice, parseFloat and the number formatting of Array.join are computed  *)
(* as the code computes them.                                              *)
(***************************************************************************)
EXTENDS Integers, Sequences, FiniteSets, TLC

(***************************************************************************)
(* JavaScript strings                                                      *)
(***************************************************************************)
Range(s) == { s[i] : i \in 1..Len(s) }

\* the characters String.prototype.trim removes (those of the model's alphabet)
Whitespace == { " ", "\t", "\r", "\n" }

\* the positions of s, in order, that hold no white space
inkPositions(s) ==
  SelectSeq([ i \in 1..Len(s) |-> i ], LAMBDA i : s[i] \notin Whitespace)

\* String.prototype.trimStart
trimStart(s) ==
  LET ink == inkPositions(s)
  IN  IF ink = <<>> THEN <<>> ELSE SubSeq(s, ink[1], Len(s))

\* String.prototype.trim
trim(s) ==
  LET ink == inkPositions(s)
  IN  IF ink = <<>> THEN <<>> ELSE SubSeq(s, ink[1], ink[Len(ink)])

\* the upper-case letters and their lower-case forms
Upper == <<"A","B","C","D","E","F","G","H","I","J","K","L","M",
           "N","O","P","Q","R","S","T","U","V","W","X","Y","Z">>
Lower == <<"a","b","c","d","e","f","g","h","i","j","k","l","m",
           "n","o","p","q","r","s","t","u","v","w","x","y","z">>

lowerChar(c) ==
  IF \E k \in 1..Len(Upper) : Upper[k] = c
    THEN Lower[CHOOSE k \in 1..Len(Upper) : Upper[k] = c]
    ELSE c

\* String.prototype.toLowerCase
toLowerCase(s) == [ i \in 1..Len(s) |-> lowerChar(s[i]) ]

\* String.prototype.split with a one-character separator: "" gives [""]
split(s, sep) ==
  LET cuts == SelectSeq([ i \in 1..Len(s) |-> i ], LAMBDA i : s[i] = sep)
      n    == Len(cuts) + 1
  IN  [ k \in 1..n |->
          SubSeq(s, IF k = 1 THEN 1 ELSE cuts[k - 1] + 1,
                    IF k = n THEN Len(s) ELSE cuts[k] - 1) ]

\* a "\r" that ends a piece cut at "\n" belongs to the line break \r?\n
stripCR(s) ==
  IF s # <<>> /\ s[Len(s)] = "\r" THEN SubSeq(s, 1, Len(s) - 1) ELSE s

\* text.split(/\r?\n/)
splitLines(text) ==
  LET pieces == split(text, "\n")
  IN  [ i \in 1..Len(pieces) |->
          IF i < Len(pieces) THEN stripCR(pieces[i]) ELSE pieces[i] ]

\* Array.prototype.filter(Boolean) on strings: the empty string is falsy
filterBoolean(ss) == SelectSeq(ss, LAMBDA x : x # <<>>)

\* Array.prototype.includes
includes(xs, x) == \E i \in 1..Len(xs) : xs[i] = x

\* Array.prototype.indexOf: the 0-based position of the first match, or -1
indexOf(xs, x) ==
  IF includes(xs, x)
    THEN (CHOOSE i \in 1..Len(xs) :
            xs[i] = x /\ \A j \in 1..(i - 1) : xs[j] # x) - 1
    ELSE -1

\* parts[i] || d : an index outside the array reads undefined, and both
\* undefined and "" are falsy
orDefault(parts, i, d) ==
  IF i >= 0 /\ i < Len(parts) /\ parts[i + 1] # <<>> THEN parts[i + 1] ELSE d

\* String.prototype.startsWith
startsWith(s, p) == Len(s) >= Len(p) /\ SubSeq(s, 1, Len(p)) = p

\* String.prototype.slice(0, n) for n >= 0
slice0(s, n) == SubSeq(s, 1, IF Len(s) < n THEN Len(s) ELSE n)

\* Array.prototype.join on strings
RECURSIVE join(_, _)
join(ss, sep) ==
  IF ss = <<>> THEN <<>>
  ELSE IF Len(ss) = 1 THEN ss[1]
       ELSE ss[1] \o sep \o join(Tail(ss), sep)

(***************************************************************************)
(* JavaScript numbers.  An amount is a decimal with at most two fractional *)
(* digits, held as its count of hundredths, or NaN.                        *)
(***************************************************************************)
Scale == 100

NaN == [ nan |-> TRUE, v |-> 0 ]
Num(v) == [ nan |-> FALSE, v |-> v ]

Digits == <<"0","1","2","3","4","5","6","7","8","9">>
isDigit(c) == \E k \in 1..Len(Digits) : Digits[k] = c
digitVal(c) == (CHOOSE k \in 1..Len(Digits) : Digits[k] = c) - 1

\* the positions of s, in order, that hold no digit
noDigitPositions(s) ==
  SelectSeq([ i \in 1..Len(s) |-> i ], LAMBDA i : ~isDigit(s[i]))

\* the longest prefix of s made of digits
digitRun(s) ==
  LET others == noDigitPositions(s)
  IN  IF others = <<>> THEN s ELSE SubSeq(s, 1, others[1] - 1)

RECURSIVE digitsVal(_)
digitsVal(ds) ==
  IF ds = <<>> THEN 0
  ELSE digitsVal(SubSeq(ds, 1, Len(ds) - 1)) * Len(Digits) + digitVal(ds[Len(ds)])

\* the value in hundredths of the fractional digits ds (at most two are kept)
fracVal(ds) ==
  IF ds = <<>> THEN 0
  ELSE IF Len(ds) = 1 THEN digitVal(ds[1]) * Len(Digits)
       ELSE digitVal(ds[1]) * Len(Digits) + digitVal(ds[2])

\* parseFloat: leading white space, an optional sign, the longest decimal
\* literal; NaN when no digit is found.  (Exponents and "Infinity" are not
\* in the model's inputs.)
parseFloat(str) ==
  LET s0   == trimStart(str)
      minus == s0 # <<>> /\ Head(s0) = "-"
      s1   == IF s0 # <<>> /\ Head(s0) \in {"-", "+"} THEN Tail(s0) ELSE s0
      ip   == digitRun(s1)
      s2   == SubSeq(s1, Len(ip) + 1, Len(s1))
      fp   == IF s2 # <<>> /\ Head(s2) = "." THEN digitRun(Tail(s2)) ELSE <<>>
      mag  == digitsVal(ip) * Scale + fracVal(fp)
  IN  IF ip = <<>> /\ fp = <<>> THEN NaN
      ELSE Num(IF minus THEN -mag ELSE mag)

\* Math.abs
abs(x) == IF x.nan THEN NaN ELSE Num(IF x.v < 0 THEN -x.v ELSE x.v)

\* unary minus
neg(x) == IF x.nan THEN NaN ELSE Num(-x.v)

\* x || 0 : NaN and 0 are falsy
orZero(x) == IF x.nan \/ x.v = 0 THEN Num(0) ELSE x

\* x < 0 : false for NaN
isNegative(x) == ~x.nan /\ x.v < 0

RECURSIVE natToString(_)
natToString(n) ==
  IF n < Len(Digits) THEN <<Digits[n + 1]>>
  ELSE natToString(n \div Len(Digits)) \o <<Digits[(n % Len(Digits)) + 1]>>

\* Number to string, as Array.prototype.join and String() write it
numToString(x) ==
  IF x.nan THEN <<"N","a","N">>
  ELSE LET a  == IF x.v < 0 THEN -x.v ELSE x.v
           ip == a \div Scale
           fp == a % Scale
           d1 == fp \div Len(Digits)
           d2 == fp % Len(Digits)
       IN  (IF x.v < 0 THEN <<"-">> ELSE <<>>)
           \o natToString(ip)
           \o (IF fp = 0 THEN <<>>
               ELSE IF d2 = 0 THEN <<".", Digits[d1 + 1]>>
               ELSE <<".", Digits[d1 + 1], Digits[d2 + 1]>>)

\* String.prototype.includes
stringIncludes(s, sub) ==
  \E i \in 1..(Len(s) - Len(sub) + 1) : SubSeq(s, i, i + Len(sub) - 1) = sub

(***************************************************************************)
(* Program constants                                                       *)
(***************************************************************************)
DEFAULT_CATEGORIES ==
  << <<"G","r","o","c","e","r","i","e","s">>,
     <<"D","i","n","i","n","g"," ","O","u","t">>,
     <<"R","e","n","t","/","M","o","r","t","g","a","g","e">>,
     <<"U","t","i","l","i","t","i","e","s">>,
     <<"T","r","a","n","s","p","o","r","t","a","t","i","o","n">>,
     <<"H","e","a","l","t","h"," ","&"," ","F","i","t","n","e","s","s">>,
     <<"E","n","t","e","r","t","a","i","n","m","e","n","t">>,
     <<"S","h","o","p","p","i","n","g">>,
     <<"T","r","a","v","e","l">>,
     <<"O","t","h","e","r">>,
     <<"I","n","c","o","m","e">> >>

\* the packaged copy of the App has no "Income" category
DEFAULT_CATEGORIES_fixed == SubSeq(DEFAULT_CATEGORIES, 1, Len(DEFAULT_CATEGORIES) - 1)

s_date        == <<"d","a","t","e">>
s_description == <<"d","e","s","c","r","i","p","t","i","o","n">>
s_amount      == <<"a","m","o","u","n","t">>
s_category    == <<"c","a","t","e","g","o","r","y">>
s_type        == <<"t","y","p","e">>
s_exp         == <<"e","x","p">>
s_Other       == <<"O","t","h","e","r">>
s_expense     == <<"e","x","p","e","n","s","e">>
s_income      == <<"i","n","c","o","m","e">>
s_zero        == <<"0">>

\* the four names that make a first line a header
HeaderNames == << s_date, s_description, s_amount, s_category >>

\* date.slice(0,10)
DateLen == 10

(***************************************************************************)
(* crypto.randomUUID.  The k-th identifier drawn by a handler that starts  *)
(* with the generator at `next`: every draw is a value never drawn before. *)
(***************************************************************************)
randomUUID(next, k) == next + k - 1

(***************************************************************************)
(* importCSV, unnamed/part_000                                             *)
(***************************************************************************)
\* lines[0].toLowerCase().split(",").map(s => s.trim())
csvCols(line) ==
  LET raw == split(toLowerCase(line), ",")
  IN  [ i \in 1..Len(raw) |-> trim(raw[i]) ]

\* ["date","description","amount","category"].every(h => cols.includes(h))
hasHeaderRow(cols) ==
  \A k \in 1..Len(HeaderNames) : includes(cols, HeaderNames[k])

\* hasHeader ? idx(name) : pos
fieldIndex(cols, hasHeader, name, pos) ==
  IF hasHeader THEN indexOf(cols, name) ELSE pos

\* parseFloat(amtStr) || 0
MutParseAmount(amtStr) == parseFloat(amtStr)
parseAmount(amtStr) == orZero(parseFloat(amtStr))

\* the sign rule: the type column, when there is one, decides the sign
MutSignedAmountNoType(amt, hasType, typeRaw) == amt
MutSignedAmountSwapped(amt, hasType, typeRaw) ==
  IF hasType
    THEN IF startsWith(typeRaw, s_exp) THEN abs(amt) ELSE neg(abs(amt))
    ELSE amt
signedAmount(amt, hasType, typeRaw) ==
  IF hasType
    THEN IF startsWith(typeRaw, s_exp) THEN neg(abs(amt)) ELSE abs(amt)
    ELSE amt

\* the callback of rows.map
parseRow(line, cols, hasHeader, hasType, id) ==
  LET raw         == split(line, ",")
      parts       == [ i \in 1..Len(raw) |-> trim(raw[i]) ]
      date        == orDefault(parts, fieldIndex(cols, hasHeader, s_date, 0), <<>>)
      description == orDefault(parts, fieldIndex(cols, hasHeader, s_description, 1), <<>>)
      amtStr      == orDefault(parts, fieldIndex(cols, hasHeader, s_amount, 2), s_zero)
      category    == orDefault(parts, fieldIndex(cols, hasHeader, s_category, 3), s_Other)
      typeRaw     == IF hasType
                       THEN toLowerCase(orDefault(parts, indexOf(cols, s_type), <<>>))
                       ELSE <<>>
      amt         == parseAmount(amtStr)
  IN  [ id          |-> id,
        date        |-> slice0(date, DateLen),
        description |-> description,
        amount      |-> signedAmount(amt, hasType, typeRaw),
        category    |-> category ]

\* the rows importCSV parses from text, in file order
parseCSV(text, next) ==
  LET lines == filterBoolean(splitLines(text))
  IN  IF lines = <<>> THEN <<>>
      ELSE LET cols      == csvCols(lines[1])
               hasHeader == hasHeaderRow(cols)
               rows      == IF hasHeader THEN Tail(lines) ELSE lines
               hasType   == hasHeader /\ indexOf(cols, s_type) # -1
           IN  [ i \in 1..Len(rows) |->
                   parseRow(rows[i], cols, hasHeader, hasType, randomUUID(next, i)) ]

\* setTransactions((prev) => [...parsed, ...prev])
importCSV(text, prev, next) == parseCSV(text, next) \o prev

(***************************************************************************)
(* importCSV, personal-finance-dashboard_fixed/.../src/App.jsx             *)
(***************************************************************************)
\* ["date","description","amount","category"].every(h => header.includes(h))
hasHeaderRow_fixed(header) ==
  \A k \in 1..Len(HeaderNames) : stringIncludes(header, HeaderNames[k])

parseRow_fixed(line, id) ==
  LET raw   == split(line, ",")
      parts == [ i \in 1..Len(raw) |-> trim(raw[i]) ]
  IN  [ id          |-> id,
        date        |-> slice0(orDefault(parts, 0, <<>>), DateLen),
        description |-> orDefault(parts, 1, <<>>),
        amount      |-> orZero(abs(parseFloat(orDefault(parts, 2, s_zero)))),
        category    |-> orDefault(parts, 3, s_Other) ]

parseCSV_fixed(text, next) ==
  LET lines == filterBoolean(splitLines(text))
  IN  IF lines = <<>> THEN <<>>
      ELSE LET hasHeader == hasHeaderRow_fixed(toLowerCase(lines[1]))
               rows      == IF hasHeader THEN Tail(lines) ELSE lines
           IN  [ i \in 1..Len(rows) |-> parseRow_fixed(rows[i], randomUUID(next, i)) ]

importCSV_fixed(text, prev, next) == parseCSV_fixed(text, next) \o prev

(***************************************************************************)
(* exportCSV and cleanCSV, unnamed/part_000                                *)
(***************************************************************************)
\* String(s).replaceAll('"', '""')
doubleQuotes(s) == join(split(s, "\""), <<"\"", "\"">>)

cleanCSV(s) ==
  LET needsQuotes == \E c \in Range(s) : c \in { "\"", ",", "\n" }
      escaped     == doubleQuotes(s)
  IN  IF needsQuotes THEN <<"\"">> \o escaped \o <<"\"">> ELSE escaped

csvHeader == s_date \o <<",">> \o s_description \o <<",">> \o s_amount
             \o <<",">> \o s_category \o <<",">> \o s_type

\* the callback of transactions.map in exportCSV
exportRow(t) ==
  LET type == IF isNegative(t.amount) THEN s_expense ELSE s_income
  IN  join(<< t.date, cleanCSV(t.description), numToString(t.amount),
              cleanCSV(t.category), type >>, <<",">>)

\* the text of the Blob that exportCSV offers for download
exportCSV(txs) ==
  csvHeader \o <<"\n">>
    \o join([ i \in 1..Len(txs) |-> exportRow(txs[i]) ], <<"\n">>)

(***************************************************************************)
(* Number(), as the forms apply it to the text of an input                 *)
(***************************************************************************)
isDecimalLiteral(s) ==
  LET s1   == IF s # <<>> /\ Head(s) \in {"-", "+"} THEN Tail(s) ELSE s
      ip   == digitRun(s1)
      s2   == SubSeq(s1, Len(ip) + 1, Len(s1))
      dot  == s2 # <<>> /\ Head(s2) = "."
      fp   == IF dot THEN digitRun(Tail(s2)) ELSE <<>>
      used == Len(ip) + (IF dot THEN 1 + Len(fp) ELSE 0)
  IN  (ip # <<>> \/ fp # <<>>) /\ used = Len(s1)

MutNumberLikeParseFloat(str) == parseFloat(str)
Number(str) ==
  LET s == trim(str)
  IN  IF s = <<>> THEN Num(0)
      ELSE IF isDecimalLiteral(s) THEN parseFloat(s) ELSE NaN

\* !x for a number: NaN and 0 are falsy
isFalsyNumber(x) == x.nan \/ x.v = 0

(***************************************************************************)
(* The store's operations, unnamed/part_000 lines 81-91 and 141-147        *)
(***************************************************************************)
\* setTransactions((prev) => [{ id: crypto.randomUUID(), ...tx }, ...prev])
MutAddTransaction(tx, prev, next) == << tx @@ ("id" :> (Len(prev) + 1)) >> \o prev
addTransaction(tx, prev, next) == << tx @@ ("id" :> randomUUID(next, 1)) >> \o prev

\* setTransactions((prev) => prev.filter((t) => t.id !== id))
MutRemoveTransaction(id, prev) == SelectSeq(prev, LAMBDA t : t.id = id)
removeTransaction(id, prev) == SelectSeq(prev, LAMBDA t : t.id # id)

\* setGoals((prev) => [{ id: crypto.randomUUID(), ...g }, ...prev])
addGoal(g, prev, next) == << g @@ ("id" :> randomUUID(next, 1)) >> \o prev

\* setGoals((prev) => prev.filter((g) => g.id !== id))
removeGoal(id, prev) == SelectSeq(prev, LAMBDA g : g.id # id)

\* addCategory: the category sequence after the call
MutAddCategoryNoCheck(name, cats) ==
  IF trim(name) = <<>> THEN cats ELSE Append(cats, trim(name))
MutAddCategoryFromDefaults(name, cats) ==
  IF trim(name) = <<>> \/ includes(cats, trim(name)) THEN cats
  ELSE Append(DEFAULT_CATEGORIES, trim(name))
addCategory(name, cats) ==
  LET trimmed == trim(name)
  IN  IF trimmed = <<>> THEN cats
      ELSE IF ~includes(cats, trimmed) THEN Append(cats, trimmed)
      ELSE cats

\* resetAll: the three collections after the call, given confirm()'s answer
MutResetAll(confirmed, txs, gs, cats, defaults) ==
  IF confirmed
    THEN [ transactions |-> <<>>, goals |-> <<>>, categories |-> cats ]
    ELSE [ transactions |-> txs, goals |-> gs, categories |-> cats ]
resetAll(confirmed, txs, gs, cats, defaults) ==
  IF confirmed
    THEN [ transactions |-> <<>>, goals |-> <<>>, categories |-> defaults ]
    ELSE [ transactions |-> txs, goals |-> gs, categories |-> cats ]

(***************************************************************************)
(* localStorage, loadLS and saveLS                                         *)
(*                                                                         *)
(* An item of localStorage is absent, or a text somebody else wrote, or    *)
(* the text JSON.stringify made of an array; that text is kept as the      *)
(* array it denotes (doc), in which JSON has no NaN: it writes null.       *)
(***************************************************************************)
pf_transactions == "pf_transactions"
pf_goals        == "pf_goals"
pf_categories   == "pf_categories"
Keys == { pf_transactions, pf_goals, pf_categories }

Item(kind, text, doc) == [ kind |-> kind, text |-> text, doc |-> doc ]

\* localStorage.getItem(key) === null
Absent == Item("absent", <<>>, <<>>)

\* an item whose text is not the program's
Text(text) == Item("text", text, <<>>)

\* JSON's number: NaN is written as null, and null read back counts as 0 in
\* the comparisons and sums of the dashboard
jsonNumber(x) == IF x.nan THEN Num(0) ELSE x

\* JSON.stringify of a collection; numberFields are its number-valued fields
stringify(v, numberFields) ==
  Item("saved", <<>>,
       [ i \in 1..Len(v) |->
           IF numberFields = {} THEN v[i]
           ELSE [ f \in DOMAIN v[i] |->
                    IF f \in numberFields THEN jsonNumber(v[i][f]) ELSE v[i][f] ] ])

numberFieldsOf(key) ==
  CASE key = pf_transactions -> { "amount" }
    [] key = pf_goals        -> { "target", "current" }
    [] OTHER                 -> {}

\* the JavaScript values JSON.parse gives here: an array, null, an object
JsArray(items) == [ kind |-> "array", items |-> items ]
JsNull         == [ kind |-> "null", items |-> <<>> ]
JsObject       == [ kind |-> "object", items |-> <<>> ]

t_null   == <<"n","u","l","l">>
t_object == <<"{","}">>
t_array  == <<"[","]">>
t_broken == <<"{","o","o","p","s">>

\* JSON.parse(raw): ok is FALSE where it throws a SyntaxError
parseJSON(item) ==
  CASE item.kind = "saved"      -> [ ok |-> TRUE, value |-> JsArray(item.doc) ]
    [] trim(item.text) = t_null   -> [ ok |-> TRUE, value |-> JsNull ]
    [] trim(item.text) = t_object -> [ ok |-> TRUE, value |-> JsObject ]
    [] trim(item.text) = t_array  -> [ ok |-> TRUE, value |-> JsArray(<<>>) ]
    [] OTHER                      -> [ ok |-> FALSE, value |-> JsNull ]

\* raw ? ... : ... : null and the empty string are falsy
isFalsyItem(item) ==
  \/ item.kind = "absent"
  \/ item.kind = "text" /\ item.text = <<>>

\* loadLS(key, fallback), given the item under the key
loadLS(item, fallback) ==
  IF isFalsyItem(item) THEN JsArray(fallback)
  ELSE IF parseJSON(item).ok THEN parseJSON(item).value
  ELSE JsArray(fallback)

\* saveLS(key, v): the item under the key afterwards; throws tells whether
\* localStorage.setItem throws, which saveLS catches
MutSaveLSNeverWrites(item, key, v, throws) == item
saveLS(item, key, v, throws) ==
  IF throws THEN item ELSE stringify(v, numberFieldsOf(key))

\* what the render of App can work with: .filter, .map and .reduce exist
isUsable(value) == value.kind = "array"

(***************************************************************************)
(* Arithmetic of JS numbers.  A number is an IEEE 754 binary floating      *)
(* point value, here with a significand of Precision bits instead of 53    *)
(* and no bound on the exponent: neg, m and e stand for (-1)^neg * m * 2^e *)
(* with 2^(Precision-1) <= m < 2^Precision, or m = 0.  Every operation     *)
(* gives the exact result rounded to the nearest value, ties to even.      *)
(***************************************************************************)
Precision == 13

Float(isNeg, m, e) == [ neg |-> isNeg, m |-> m, e |-> e ]
fzero == Float(FALSE, 0, 0)

\* scale num/den by powers of 2 into [2^(Precision-1), 2^Precision)
RECURSIVE normalize(_, _, _)
normalize(num, den, e) ==
  IF num \div den >= 2^Precision THEN normalize(num, 2 * den, e + 1)
  ELSE IF num \div den < 2^(Precision - 1) THEN normalize(2 * num, den, e - 1)
  ELSE [ num |-> num, den |-> den, e |-> e ]

\* the value nearest to (-1)^neg * (num / den) * 2^e, ties to even
fround(isNeg, num, den, e) ==
  IF num = 0 THEN fzero
  ELSE LET n  == normalize(num, den, e)
           q  == n.num \div n.den
           r  == n.num % n.den
           up == 2 * r > n.den \/ (2 * r = n.den /\ q % 2 = 1)
           m  == IF up THEN q + 1 ELSE q
       IN  IF m = 2^Precision THEN Float(isNeg, 2^(Precision - 1), n.e + 1)
           ELSE Float(isNeg, m, n.e)

\* the number a decimal literal or JSON number denotes
toFloat(x) == fround(x.v < 0, IF x.v < 0 THEN -x.v ELSE x.v, Scale, 0)

fneg(a) == IF a.m = 0 THEN a ELSE Float(~a.neg, a.m, a.e)
fabs(a) == Float(FALSE, a.m, a.e)
signedM(a) == IF a.neg THEN -a.m ELSE a.m

\* a + b
fadd(a, b) ==
  IF a.m = 0 THEN b
  ELSE IF b.m = 0 THEN a
  ELSE LET hi == IF a.e >= b.e THEN a ELSE b
           lo == IF a.e >= b.e THEN b ELSE a
           d  == hi.e - lo.e
           s  == signedM(hi) * 2^d + signedM(lo)
       IN  IF d > Precision + 1 THEN hi
           ELSE fround(s < 0, IF s < 0 THEN -s ELSE s, 1, lo.e)

\* a - b
fsub(a, b) == fadd(a, fneg(b))

\* a * b
fmul(a, b) == fround(a.neg # b.neg, a.m * b.m, 1, a.e + b.e)

\* a / b, b not 0
fdiv(a, b) == fround(a.neg # b.neg, a.m, b.m, a.e - b.e)

\* a < 0, a > 0, a >= 0
fisNegative(a) == a.neg /\ a.m # 0
fisPositive(a) == ~a.neg /\ a.m # 0

\* Math.round: floor(a + 0.5), as an integer
mathRound(a) ==
  IF a.e >= 0 THEN signedM(a) * 2^(a.e)
  ELSE IF -a.e > Precision + 1 THEN 0
  ELSE (2 * signedM(a) + 2^(-a.e)) \div 2^(1 - a.e)

\* Math.min(100, n)
mathMin100(n) == IF n > 100 THEN 100 ELSE n

\* t.amount as the arithmetic sees it: NaN never reaches a collection, and
\* the null JSON.stringify writes for it counts as 0
amountOf(t) == toFloat(jsonNumber(t.amount))

(***************************************************************************)
(* The dashboard: filteredTx and totals                                    *)
(***************************************************************************)
s_Uncategorized == <<"U","n","c","a","t","e","g","o","r","i","z","e","d">>

\* t.date?.slice(0, 7)
monthOf(t) == slice0(t.date, 7)

MutFilteredTxMonthOnly(txs, month, category) ==
  LET monthOK(t) == month = <<>> \/ monthOf(t) = month
  IN  SelectSeq(txs, monthOK)
filteredTx(txs, month, category) ==
  LET monthOK(t) == month = <<>> \/ monthOf(t) = month
      catOK(t)   == category = <<"A","l","l">> \/ t.category = category
      keep(t)    == monthOK(t) /\ catOK(t)
  IN  SelectSeq(txs, keep)

\* xs.reduce((s, x) => s + x, 0)
RECURSIVE sum(_)
sum(xs) == IF xs = <<>> THEN fzero ELSE fadd(sum(SubSeq(xs, 1, Len(xs) - 1)), xs[Len(xs)])

amounts(txs) == [ i \in 1..Len(txs) |-> amountOf(txs[i]) ]

\* ftx.filter(t => t.amount > 0).reduce((s, t) => s + t.amount, 0)
income(ftx) == sum(SelectSeq(amounts(ftx), fisPositive))

\* ftx.filter(t => t.amount < 0).reduce((s, t) => s + Math.abs(t.amount), 0)
MutExpensesSigned(ftx) == sum(SelectSeq(amounts(ftx), fisNegative))
expenses(ftx) ==
  LET magnitudes(xs) == [ i \in 1..Len(xs) |-> fabs(xs[i]) ]
  IN  sum(magnitudes(SelectSeq(amounts(ftx), fisNegative)))

\* a Map of records, in insertion order: the position of a key, 0 if absent
position(entries, field, key) ==
  IF \E i \in 1..Len(entries) : entries[i][field] = key
    THEN CHOOSE i \in 1..Len(entries) : entries[i][field] = key
    ELSE 0

\* byCatMap after the loop over ftx; only expenses are entered
RECURSIVE byCat(_)
byCat(ftx) ==
  IF ftx = <<>> THEN <<>>
  ELSE LET map == byCat(SubSeq(ftx, 1, Len(ftx) - 1))
           t   == ftx[Len(ftx)]
           key == IF t.category = <<>> THEN s_Uncategorized ELSE t.category
           at  == position(map, "name", key)
           a   == amountOf(t)
       IN  IF ~fisNegative(a) THEN map
           ELSE IF at = 0
             THEN Append(map, [ name |-> key, value |-> fadd(fzero, fabs(a)) ])
             ELSE [ map EXCEPT ![at].value = fadd(@, fabs(a)) ]

\* the copy in personal-finance-dashboard_fixed enters every transaction
RECURSIVE byCat_fixed(_)
byCat_fixed(ftx) ==
  IF ftx = <<>> THEN <<>>
  ELSE LET map == byCat_fixed(SubSeq(ftx, 1, Len(ftx) - 1))
           t   == ftx[Len(ftx)]
           key == IF t.category = <<>> THEN s_Uncategorized ELSE t.category
           at  == position(map, "name", key)
       IN  IF at = 0
             THEN Append(map, [ name |-> key, value |-> fadd(fzero, amountOf(t)) ])
             ELSE [ map EXCEPT ![at].value = fadd(@, amountOf(t)) ]

\* a.localeCompare(b) < 0.  The collation compares the strings character by
\* character without the case of the letters: space, then "-", then the
\* digits, then the letters of the alphabet; where that finds no difference
\* a lower-case letter comes before its upper-case form.
charRank(c) ==
  IF c = " " THEN 0
  ELSE IF c = "-" THEN 1
  ELSE IF isDigit(c) THEN 2 + digitVal(c)
  ELSE IF \E k \in 1..Len(Lower) : Lower[k] = lowerChar(c)
    THEN 11 + (CHOOSE k \in 1..Len(Lower) : Lower[k] = lowerChar(c))
  ELSE 11 + Len(Lower) + 1

caseRank(c) == IF c # lowerChar(c) THEN 1 ELSE 0

\* x before y, position by position; a proper prefix comes first
lexLess(x, y) ==
  \E k \in 1..Len(y) :
    /\ \A i \in 1..(k - 1) : i <= Len(x) /\ x[i] = y[i]
    /\ k = Len(x) + 1 \/ (k <= Len(x) /\ x[k] < y[k])

comesBefore(a, b) ==
  LET pa == [ k \in 1..Len(a) |-> charRank(a[k]) ]
      pb == [ k \in 1..Len(b) |-> charRank(b[k]) ]
      ca == [ k \in 1..Len(a) |-> caseRank(a[k]) ]
      cb == [ k \in 1..Len(b) |-> caseRank(b[k]) ]
  IN  lexLess(pa, pb) \/ (pa = pb /\ lexLess(ca, cb))

\* entries.sort((a, b) => a.ym.localeCompare(b.ym)); the keys are distinct
MutSortByYmKeepsInsertionOrder(entries) == entries
RECURSIVE sortByYm(_)
sortByYm(entries) ==
  IF entries = <<>> THEN <<>>
  ELSE LET first == CHOOSE i \in 1..Len(entries) :
                      \A j \in 1..Len(entries) :
                        j = i \/ comesBefore(entries[i].ym, entries[j].ym)
           rest  == [ k \in 1..(Len(entries) - 1) |->
                        IF k < first THEN entries[k] ELSE entries[k + 1] ]
       IN  <<entries[first]>> \o sortByYm(rest)

\* byMonthMap after the loop over txs; records without a month are skipped
RECURSIVE byMonthMap(_)
byMonthMap(txs) ==
  IF txs = <<>> THEN <<>>
  ELSE LET map == byMonthMap(SubSeq(txs, 1, Len(txs) - 1))
           t   == txs[Len(txs)]
           ym  == monthOf(t)
           at  == position(map, "ym", ym)
           old == IF at = 0 THEN [ ym |-> ym, income |-> fzero, expenses |-> fzero ]
                  ELSE map[at]
           a   == amountOf(t)
           new == IF ~fisNegative(a)
                    THEN [ old EXCEPT !.income = fadd(@, a) ]
                    ELSE [ old EXCEPT !.expenses = fadd(@, fabs(a)) ]
       IN  IF ym = <<>> THEN map
           ELSE IF at = 0 THEN Append(map, new)
           ELSE [ map EXCEPT ![at] = new ]

byMonth(txs) == sortByYm(byMonthMap(txs))

MutTotalsTrendOfFiltered(txs, month, category) ==
  LET ftx == filteredTx(txs, month, category)
      inc == income(ftx)
      exp == expenses(ftx)
  IN  [ income |-> inc, expenses |-> exp, net |-> fsub(inc, exp),
        byCat |-> byCat(ftx), byMonth |-> byMonth(ftx) ]
\* useMemo(..., [filteredTx, transactions])
totals(txs, month, category) ==
  LET ftx == filteredTx(txs, month, category)
      inc == income(ftx)
      exp == expenses(ftx)
  IN  [ income |-> inc, expenses |-> exp, net |-> fsub(inc, exp),
        byCat |-> byCat(ftx), byMonth |-> byMonth(txs) ]

\* the totals of the copy in personal-finance-dashboard_fixed that the
\* category breakdown needs
totals_fixed(txs, month, category) ==
  [ byCat |-> byCat_fixed(filteredTx(txs, month, category)) ]

\* the progress bar of a goal
MutPctNoClamp(g) ==
  LET current == IF isFalsyNumber(g.current) THEN Num(0) ELSE g.current
      target  == IF isFalsyNumber(g.target) THEN Num(Scale) ELSE g.target
  IN  mathRound(fmul(fdiv(toFloat(current), toFloat(target)), toFloat(Num(100 * Scale))))
MutPctZeroWithoutTarget(g) ==
  LET current == IF isFalsyNumber(g.current) THEN Num(0) ELSE g.current
      target  == IF isFalsyNumber(g.target) THEN Num(Scale) ELSE g.target
  IN  IF isFalsyNumber(g.target) THEN 0
      ELSE mathMin100(mathRound(fmul(fdiv(toFloat(current), toFloat(target)),
                                     toFloat(Num(100 * Scale)))))
pct(g) ==
  LET current == IF isFalsyNumber(g.current) THEN Num(0) ELSE g.current
      target  == IF isFalsyNumber(g.target) THEN Num(Scale) ELSE g.target
  IN  mathMin100(mathRound(fmul(fdiv(toFloat(current), toFloat(target)),
                                toFloat(Num(100 * Scale)))))

(***************************************************************************)
(* State                                                                   *)
(***************************************************************************)
VARIABLES
  build,         \* the copy of the App that runs: "main" (unnamed/part_000)
                 \* or "fixed" (personal-finance-dashboard_fixed)
  transactions,  \* useState: the transaction collection, newest first
  goals,         \* useState: the goal collection
  categories,    \* useState: the category sequence
  nextId,        \* crypto.randomUUID: the number of the next draw
  last,          \* history: the handler that ran last, with its inputs
  prev,          \* history: the collections before that handler ran
  issued,        \* history: every id given to a record so far
  filterMonth,   \* useState: the month filter, "yyyy-mm" or ""
  filterCategory,\* useState: the category filter, "All" or a name
  storage,       \* localStorage: the items under the three keys
  setItemThrows, \* whether localStorage.setItem can throw (quota, private mode)
  saves,         \* history: the saves the last handler caused, and those that failed
  reading        \* FileReader: the reads started and not yet loaded, oldest first

vars == << build, transactions, goals, categories, nextId, last, prev, issued,
           filterMonth, filterCategory, storage, setItemThrows, saves,
           reading >>

Snapshot ==
  [ transactions |-> transactions, goals |-> goals,
    categories |-> categories, issued |-> issued, storage |-> storage ]

defaultCategories(b) ==
  IF b = "main" THEN DEFAULT_CATEGORIES ELSE DEFAULT_CATEGORIES_fixed

\* the month new Date() gives when the App is constructed
s_thisMonth == <<"2","0","2","4","-","0","2">>
s_All == <<"A","l","l">>

\* localStorage after the save effects of the first render, of which those
\* of the keys in F failed
savedAll(txs, gs, cats, F) ==
  [ pf_transactions |-> saveLS(Absent, pf_transactions, txs, pf_transactions \in F),
    pf_goals        |-> saveLS(Absent, pf_goals, gs, pf_goals \in F),
    pf_categories   |-> saveLS(Absent, pf_categories, cats, pf_categories \in F) ]

\* the state after construction with an empty localStorage, on a device where
\* setItem can throw (throws) or cannot
InitWith(b, throws) ==
  /\ build = b
  /\ transactions = <<>>
  /\ goals = <<>>
  /\ categories = defaultCategories(b)
  /\ nextId = 1
  /\ last = [ op |-> "init", ids |-> <<>> ]
  /\ \E F \in SUBSET (IF throws THEN Keys ELSE {}) :
       /\ storage = savedAll(<<>>, <<>>, defaultCategories(b), F)
       /\ saves = [ issued |-> Keys, failed |-> F ]
  /\ prev = [ transactions |-> <<>>, goals |-> <<>>,
              categories |-> defaultCategories(b), issued |-> {},
              storage |-> [ pf_transactions |-> Absent, pf_goals |-> Absent,
                            pf_categories |-> Absent ] ]
  /\ issued = {}
  /\ filterMonth = s_thisMonth
  /\ filterCategory = s_All
  /\ setItemThrows = throws
  /\ reading = <<>>

InitOf(b) == InitWith(b, FALSE)

Init == InitOf("main")

\* the ids of the k records a handler put at the front of a collection
frontIds(coll, k) == [ i \in 1..k |-> coll[i].id ]

\* the useEffect save hooks after the render a handler causes: called are the
\* keys whose state setter the handler called; each save may fail where
\* setItem can throw
Saves(called) ==
  \E F \in SUBSET called :
       /\ F # {} => setItemThrows
       /\ storage' =
            [ pf_transactions |->
                IF pf_transactions \in called
                  THEN saveLS(storage.pf_transactions, pf_transactions,
                              transactions', pf_transactions \in F)
                  ELSE storage.pf_transactions,
              pf_goals |->
                IF pf_goals \in called
                  THEN saveLS(storage.pf_goals, pf_goals, goals', pf_goals \in F)
                  ELSE storage.pf_goals,
              pf_categories |->
                IF pf_categories \in called
                  THEN saveLS(storage.pf_categories, pf_categories,
                              categories', pf_categories \in F)
                  ELSE storage.pf_categories ]
       /\ saves' = [ issued |-> called, failed |-> F ]

\* the effects of a handler that leaves the filters and the pending reads alone
Effects(called) ==
  /\ Saves(called)
  /\ UNCHANGED << filterMonth, filterCategory, setItemThrows, reading >>

(***************************************************************************)
(* exportCSV, personal-finance-dashboard_fixed/.../src/App.jsx             *)
(***************************************************************************)
csvHeader_fixed == s_date \o <<",">> \o s_description \o <<",">> \o s_amount
                   \o <<",">> \o s_category

exportRow_fixed(t) ==
  join(<< t.date, cleanCSV(t.description), numToString(t.amount),
          cleanCSV(t.category) >>, <<",">>)

exportCSV_fixed(txs) ==
  csvHeader_fixed \o <<"\n">>
    \o join([ i \in 1..Len(txs) |-> exportRow_fixed(txs[i]) ], <<"\n">>)

(***************************************************************************)
(* CSV files offered to the Import control.  A file is a header line (or   *)
(* none), data rows and a line break; a line is a sequence of cells.  Each *)
(* cell carries its text and, for the statements about the import, what    *)
(* that text stands for: the trimmed text, its first ten characters, its   *)
(* number, whether it names an expense, and the column a header cell names.*)
(***************************************************************************)
Cell(text, str, d10, num, exp, col) ==
  [ text |-> text, str |-> str, d10 |-> d10, num |-> num, exp |-> exp, col |-> col ]

Word(text) == Cell(text, text, text, NaN, FALSE, "")

c_blank   == Word(<<>>)
c_day     == Cell(<<"2","0","2","4","-","0","2","-","0","1">>,
                  <<"2","0","2","4","-","0","2","-","0","1">>,
                  <<"2","0","2","4","-","0","2","-","0","1">>,
                  Num(2024 * Scale), FALSE, "")
c_stamp   == Cell(<<"2","0","2","4","-","0","3","-","0","5","T","0","9",":","3","0">>,
                  <<"2","0","2","4","-","0","3","-","0","5","T","0","9",":","3","0">>,
                  <<"2","0","2","4","-","0","3","-","0","5">>,
                  Num(2024 * Scale), FALSE, "")
c_gym     == Word(<<"G","y","m">>)
c_coffee  == Cell(<<" ","C","o","f","f","e","e"," ">>, <<"C","o","f","f","e","e">>,
                  <<"C","o","f","f","e","e">>, NaN, FALSE, "")
c_rent    == Word(<<"R","e","n","t">>)
c_45      == Cell(<<"4","5">>, <<"4","5">>, <<"4","5">>, Num(45 * Scale), FALSE, "")
c_m1200   == Cell(<<"-","1","2","0","0">>, <<"-","1","2","0","0">>,
                  <<"-","1","2","0","0">>, Num(-(1200 * Scale)), FALSE, "")
c_4p50    == Cell(<<"4",".","5","0">>, <<"4",".","5","0">>, <<"4",".","5","0">>,
                  Num(4 * Scale + 50), FALSE, "")
c_12abc   == Cell(<<"1","2","a","b","c">>, <<"1","2","a","b","c">>,
                  <<"1","2","a","b","c">>, Num(12 * Scale), FALSE, "")
c_abc     == Word(<<"a","b","c">>)
c_expense == Cell(s_expense, s_expense, s_expense, NaN, TRUE, "")
c_EXP     == Cell(<<"E","X","P">>, <<"E","X","P">>, <<"E","X","P">>, NaN, TRUE, "")
c_income  == Word(s_income)

\* header cells
HeaderCell(text, str, d10, col) == Cell(text, str, d10, NaN, FALSE, col)
h_date        == HeaderCell(s_date, s_date, s_date, "date")
h_description == HeaderCell(s_description, s_description,
                            SubSeq(s_description, 1, DateLen), "description")
h_amount      == HeaderCell(s_amount, s_amount, s_amount, "amount")
h_category    == HeaderCell(s_category, s_category, s_category, "category")
h_type        == HeaderCell(s_type, s_type, s_type, "type")
h_Date        == HeaderCell(<<" ","D","a","t","e">>, <<"D","a","t","e">>,
                            <<"D","a","t","e">>, "date")
h_AMOUNT      == HeaderCell(<<"A","M","O","U","N","T">>, <<"A","M","O","U","N","T">>,
                            <<"A","M","O","U","N","T">>, "amount")
h_note        == HeaderCell(<<"n","o","t","e">>, <<"n","o","t","e">>,
                            <<"n","o","t","e">>, "note")
h_dates       == HeaderCell(<<"d","a","t","e","s">>, <<"d","a","t","e","s">>,
                            <<"d","a","t","e","s">>, "dates")

\* the first lines tried: none, the documented headers, other cases and
\* orders, an extra column, and first lines that are no header
Headers ==
  { <<>>,
    << h_date, h_description, h_amount, h_category >>,
    << h_date, h_description, h_amount, h_category, h_type >>,
    << h_Date, h_description, h_AMOUNT, h_category, h_type >>,
    << h_amount, h_date, h_type, h_category, h_description >>,
    << h_category, h_amount, h_description, h_date >>,
    << h_date, h_note, h_description, h_amount, h_category >>,
    << h_date, h_description, h_amount >>,
    << h_dates, h_description, h_amount, h_category >> }

\* the columns the rows of a file are written in
layoutOf(hdr) ==
  IF hdr = <<>> THEN << "date", "description", "amount", "category", "type" >>
  ELSE [ i \in 1..Len(hdr) |-> hdr[i].col ]

Row(date, description, amount, category, type, n) ==
  [ date |-> date, description |-> description, amount |-> amount,
    category |-> category, type |-> type, n |-> n ]

cellFor(r, name) ==
  CASE name \in { "date", "dates" } -> r.date
    [] name = "description"         -> r.description
    [] name = "amount"              -> r.amount
    [] name = "category"            -> r.category
    [] name = "type"                -> r.type
    [] OTHER                        -> c_gym

\* the cells of row r: the first r.n columns of the layout
rowCells(r, layout) ==
  [ i \in 1..(IF r.n < Len(layout) THEN r.n ELSE Len(layout)) |-> cellFor(r, layout[i]) ]

fileLines(f) ==
  (IF f.hdr = <<>> THEN <<>> ELSE << f.hdr >>)
    \o [ i \in 1..Len(f.rows) |-> rowCells(f.rows[i], layoutOf(f.hdr)) ]

lineText(cells) == join([ i \in 1..Len(cells) |-> cells[i].text ], <<",">>)

\* what FileReader.readAsText hands to importCSV
fileText(f) ==
  LET ls == fileLines(f) IN join([ i \in 1..Len(ls) |-> lineText(ls[i]) ], f.eol)

File(hdr, rows, eol) == [ hdr |-> hdr, rows |-> rows, eol |-> eol ]

(***************************************************************************)
(* Bounds and inputs                                                       *)
(***************************************************************************)
\* identifiers drawn in one session
MaxIds == 2
\* categories added to the default list
MaxCats == 2
\* data rows of an imported file
MaxRows == 2
\* file reads in flight at one time
MaxReads == 2
\* identifiers drawn in one session with file reads in flight
MaxReadIds == 4

\* the rows tried as the first data row of a file
AllRows ==
  { Row(d, x, a, c, t, n) :
      d \in { c_blank, c_day, c_stamp },
      x \in { c_blank, c_gym, c_coffee },
      a \in { c_blank, c_45, c_m1200, c_4p50, c_12abc, c_abc },
      c \in { c_blank, c_rent },
      t \in { c_blank, c_expense, c_income },
      n \in { 2, 5 } }

\* the rows tried after the first: a blank line, a lone cell, full rows
FewRows ==
  { Row(c_blank, c_blank, c_blank, c_blank, c_blank, 0),
    Row(c_day, c_gym, c_45, c_rent, c_EXP, 1),
    Row(c_stamp, c_coffee, c_m1200, c_rent, c_income, 5) }

RECURSIVE SeqsUpTo(_, _)
\* the sequences over S of length at most n
SeqsUpTo(S, n) ==
  IF n = 0 THEN { <<>> }
  ELSE LET shorter == SeqsUpTo(S, n - 1)
       IN  shorter \cup { Append(q, x) : q \in shorter, x \in S }

RowSeqs ==
  { <<>> } \cup { <<r>> \o q : r \in AllRows, q \in SeqsUpTo(FewRows, MaxRows - 1) }

LineBreaks == { <<"\n">>, <<"\r", "\n">> }

\* the files of the codec's specification
CsvFiles == { File(h, rows, eol) : h \in Headers, rows \in RowSeqs, eol \in LineBreaks }

\* the files of the store's specification
StoreFiles ==
  { File(<< h_date, h_description, h_amount, h_category, h_type >>,
         << Row(c_day, c_gym, c_45, c_rent, c_expense, 5),
            Row(c_stamp, c_coffee, c_m1200, c_blank, c_income, 5) >>, <<"\n">>),
    File(<<>>, << Row(c_day, c_gym, c_m1200, c_rent, c_blank, 4) >>, <<"\r", "\n">>),
    File(<<>>, <<>>, <<"\n">>) }

\* what the transaction form holds when it is submitted
Form(date, description, amount, type) ==
  [ date |-> date, description |-> description, amount |-> amount, type |-> type ]

StoreForms ==
  { Form(c_day.text, c_gym.text, c_45.text, s_expense),
    Form(c_stamp.d10, c_coffee.text, c_4p50.text, s_income),
    Form(<<>>, <<>>, <<>>, s_expense) }

\* the options of the category select that are tried: the first and the last
formCategories(cats) == { cats[1], cats[Len(cats)] }

GoalForm(name, target, current, due) ==
  [ name |-> name, target |-> target, current |-> current, due |-> due ]

GoalForms ==
  { GoalForm(<<"C","a","r">>, <<"1","0","0","0">>, <<>>, <<>>),
    GoalForm(<<"C","a","r">>, <<"0">>, <<"2","0","0","0">>, <<>>),
    GoalForm(<<>>, <<"1","0","0","0">>, <<>>, <<>>),
    GoalForm(<<"C","a","r">>, <<>>, <<"2","0","0","0">>, <<>>) }

\* the names typed into the new-category input
CategoryNames ==
  { c_blank,
    Cell(<<" ", " ">>, <<>>, <<>>, NaN, FALSE, ""),
    Word(<<"P","e","t","s">>),
    Cell(<<" ","P","e","t","s"," ">>, <<"P","e","t","s">>, <<"P","e","t","s">>,
         NaN, FALSE, ""),
    Word(s_Other),
    Word(<<"o","t","h","e","r">>) }

\* the ids a remove handler is called with
RemoveIds == 1..(MaxIds + 1)

(***************************************************************************)
(* Handlers                                                                *)
(***************************************************************************)
\* TransactionForm.submit, which calls addTransaction
SubmitTransactionUpTo(f, cat, maxId) ==
  LET amt    == Number(f.amount)
      signed == IF f.type = s_expense THEN neg(abs(amt)) ELSE abs(amt)
      tx     == [ date |-> f.date, description |-> f.description,
                  amount |-> signed, category |-> cat ]
  IN  /\ nextId <= maxId
      /\ IF isFalsyNumber(amt) \/ amt.v <= 0
           THEN /\ UNCHANGED << transactions, nextId, issued >>
                /\ last' = [ op |-> "submitTransaction", form |-> f, category |-> cat,
                             accepted |-> FALSE, ids |-> <<>> ]
                /\ Effects({})
           ELSE /\ transactions' = addTransaction(tx, transactions, nextId)
                /\ nextId' = nextId + 1
                /\ issued' = issued \cup Range(frontIds(transactions', 1))
                /\ last' = [ op |-> "submitTransaction", form |-> f, category |-> cat,
                             accepted |-> TRUE, ids |-> frontIds(transactions', 1) ]
                /\ Effects({ pf_transactions })
      /\ prev' = Snapshot
      /\ UNCHANGED << build, goals, categories >>

SubmitTransaction(f, cat) == SubmitTransactionUpTo(f, cat, MaxIds)

\* the Trash button of a transaction row, and removeTransaction(id) in general
RemoveTransaction(id) ==
  /\ transactions' = removeTransaction(id, transactions)
  /\ last' = [ op |-> "removeTransaction", id |-> id, ids |-> <<>> ]
  /\ prev' = Snapshot
  /\ Effects({ pf_transactions })
  /\ UNCHANGED << build, goals, categories, nextId, issued >>

\* GoalForm.submit, which calls addGoal
SubmitGoal(f) ==
  LET g     == [ name |-> f.name, target |-> Number(f.target),
                 current |-> IF f.current = <<>> THEN Num(0) ELSE Number(f.current),
                 due |-> f.due ]
  IN  /\ nextId <= MaxIds
      /\ IF f.name = <<>> \/ f.target = <<>>
           THEN /\ UNCHANGED << goals, nextId, issued >>
                /\ last' = [ op |-> "submitGoal", form |-> f, accepted |-> FALSE,
                             ids |-> <<>> ]
                /\ Effects({})
           ELSE /\ goals' = addGoal(g, goals, nextId)
                /\ nextId' = nextId + 1
                /\ issued' = issued \cup Range(frontIds(goals', 1))
                /\ last' = [ op |-> "submitGoal", form |-> f, accepted |-> TRUE,
                             ids |-> frontIds(goals', 1) ]
                /\ Effects({ pf_goals })
      /\ prev' = Snapshot
      /\ UNCHANGED << build, transactions, categories >>

\* the Trash button of a goal, and removeGoal(id) in general
RemoveGoal(id) ==
  /\ goals' = removeGoal(id, goals)
  /\ last' = [ op |-> "removeGoal", id |-> id, ids |-> <<>> ]
  /\ prev' = Snapshot
  /\ Effects({ pf_goals })
  /\ UNCHANGED << build, transactions, categories, nextId, issued >>

\* addCategory(name), as TransactionForm.addCat calls it with the text typed
AddCategory(name) ==
  /\ Len(addCategory(name.text, categories))
       <= Len(defaultCategories(build)) + MaxCats
  /\ categories' = addCategory(name.text, categories)
  /\ last' = [ op |-> "addCategory", name |-> name, ids |-> <<>> ]
  /\ prev' = Snapshot
  /\ Effects(IF categories' # categories THEN { pf_categories } ELSE {})
  /\ UNCHANGED << build, transactions, goals, nextId, issued >>

\* the parsed rows in front of the collection, by the running copy
importedBy(b, text, before, next) ==
  IF b = "main" THEN importCSV(text, before, next)
  ELSE importCSV_fixed(text, before, next)

\* the number of records a handler put at the front of a collection
grown(before, after) == Len(after) - Len(before)

\* importCSV returns before setTransactions when the text has no line
hasLines(text) == filterBoolean(splitLines(text)) # <<>>

\* ImportCSV.handle and reader.onload, which calls importCSV
ImportFile(f) ==
  /\ transactions' = importedBy(build, fileText(f), transactions, nextId)
  /\ nextId' = nextId + grown(transactions, transactions')
  /\ issued' = issued
       \cup Range(frontIds(transactions', grown(transactions, transactions')))
  /\ last' = [ op |-> "importCSV", file |-> f,
               ids |-> frontIds(transactions', grown(transactions, transactions')) ]
  /\ prev' = Snapshot
  /\ Effects(IF hasLines(fileText(f)) THEN { pf_transactions } ELSE {})
  /\ UNCHANGED << build, goals, categories >>

\* the number of rows importCSV makes of a file
rowCount(f) == Len(importedBy(build, fileText(f), <<>>, nextId))

RECURSIVE pendingRows(_)
\* the number of rows the reads in flight will make
pendingRows(reads) ==
  IF reads = <<>> THEN 0 ELSE rowCount(Head(reads).file) + pendingRows(Tail(reads))

\* the sequence without its k-th element
without(q, k) == SubSeq(q, 1, k - 1) \o SubSeq(q, k + 1, Len(q))

\* ImportCSV.handle: a file is chosen, reader.readAsText(file) starts the read
\* and returns; atStart keeps the collection of the render in which it ran
StartRead(f) ==
  /\ Len(reading) < MaxReads
  /\ nextId + pendingRows(reading) + rowCount(f) <= MaxReadIds + 1
  /\ reading' = Append(reading, [ file |-> f, atStart |-> transactions ])
  /\ last' = [ op |-> "readAsText", file |-> f, ids |-> <<>> ]
  /\ prev' = Snapshot
  /\ Saves({})
  /\ UNCHANGED << build, transactions, goals, categories, nextId, issued,
                  filterMonth, filterCategory, setItemThrows >>

\* setTransactions((prev) => ...): React calls the updater with the state as
\* it is when the update is applied, not with the state a closure captured
MutUpdaterArgumentIsClosure(closure, current) == closure
updaterArgument(closure, current) == current

\* reader.onload of the k-th read in flight, which calls importCSV on the text
CompleteRead(k) ==
  LET f    == reading[k].file
      rows == rowCount(f)
  IN  /\ transactions' =
             importedBy(build, fileText(f),
                        updaterArgument(reading[k].atStart, transactions), nextId)
      /\ nextId' = nextId + rows
      /\ issued' = issued \cup Range(frontIds(transactions', rows))
      /\ last' = [ op |-> "onload", file |-> f, atStart |-> reading[k].atStart,
                   ids |-> frontIds(transactions', rows) ]
      /\ prev' = Snapshot
      /\ reading' = without(reading, k)
      /\ Saves(IF hasLines(fileText(f)) THEN { pf_transactions } ELSE {})
      /\ UNCHANGED << build, goals, categories, filterMonth, filterCategory,
                      setItemThrows >>

\* the Export button: the text of the downloaded file
ExportCSV ==
  /\ last' = [ op |-> "exportCSV", ids |-> <<>>,
               text |-> IF build = "main" THEN exportCSV(transactions)
                        ELSE exportCSV_fixed(transactions) ]
  /\ prev' = Snapshot
  /\ Effects({})
  /\ UNCHANGED << build, transactions, goals, categories, nextId, issued >>

\* the Reset button: resetAll asks confirm() and acts on the answer
ResetAll(confirmed) ==
  /\ transactions' = resetAll(confirmed, transactions, goals, categories,
                              defaultCategories(build)).transactions
  /\ goals' = resetAll(confirmed, transactions, goals, categories,
                       defaultCategories(build)).goals
  /\ categories' = resetAll(confirmed, transactions, goals, categories,
                            defaultCategories(build)).categories
  /\ last' = [ op |-> "resetAll", confirmed |-> confirmed, ids |-> <<>> ]
  /\ prev' = Snapshot
  /\ Effects(IF confirmed THEN Keys ELSE {})
  /\ UNCHANGED << build, nextId, issued >>

Next ==
  \/ \E f \in StoreForms : \E cat \in formCategories(categories) :
       SubmitTransaction(f, cat)
  \/ \E id \in RemoveIds : RemoveTransaction(id)
  \/ \E f \in GoalForms : SubmitGoal(f)
  \/ \E id \in RemoveIds : RemoveGoal(id)
  \/ \E name \in CategoryNames : AddCategory(name)
  \/ \E f \in StoreFiles : nextId + rowCount(f) <= MaxIds + 1 /\ ImportFile(f)
  \/ ExportCSV
  \/ \E confirmed \in BOOLEAN : ResetAll(confirmed)

Spec == Init /\ [][Next]_vars

(***************************************************************************)
(* The codec alone: one import of any of CsvFiles into the empty ledger    *)
(***************************************************************************)
NextCsv == last.op = "init" /\ \E f \in CsvFiles : ImportFile(f)

SpecCsv == Init /\ [][NextCsv]_vars

SpecCsvFixed == InitOf("fixed") /\ [][NextCsv]_vars

\* the files in the format the README documents: no header line, or the
\* header date,description,amount,category
DocumentedFiles ==
  { f \in CsvFiles : f.hdr \in { <<>>, << h_date, h_description, h_amount, h_category >> } }

NextCsvDocumented == last.op = "init" /\ \E f \in DocumentedFiles : ImportFile(f)

SpecCsvFixedDocumented == InitOf("fixed") /\ [][NextCsvDocumented]_vars

(***************************************************************************)
(* Import, then export: the file the Export button offers for a collection *)
(* of rows that came from a file                                           *)
(***************************************************************************)
NextExport ==
  \/ last.op = "init" /\ \E f \in DocumentedFiles : ImportFile(f)
  \/ last.op = "importCSV" /\ transactions # <<>> /\ ExportCSV

SpecExport == Init /\ [][NextExport]_vars

SpecExportFixed == InitOf("fixed") /\ [][NextExport]_vars

(***************************************************************************)
(* File reads in flight: a read is started, the ledger is edited or other  *)
(* reads start and load, and the read loads into the ledger as it is then  *)
(***************************************************************************)
\* a file of two rows under the documented header, and one of a single row
ReadFiles ==
  { File(<< h_date, h_description, h_amount, h_category >>,
         << Row(c_day, c_gym, c_45, c_rent, c_blank, 4),
            Row(c_stamp, c_coffee, c_m1200, c_rent, c_blank, 4) >>, <<"\n">>),
    File(<<>>, << Row(c_day, c_rent, c_m1200, c_rent, c_blank, 4) >>, <<"\r", "\n">>) }

\* the form submitted while reads are in flight
ReadForms == { Form(c_day.text, c_abc.text, c_4p50.text, s_expense) }

NextReads ==
  \/ \E f \in ReadFiles : StartRead(f)
  \/ \E k \in 1..Len(reading) : CompleteRead(k)
  \/ \E f \in ReadForms :
       SubmitTransactionUpTo(f, categories[1], MaxReadIds - pendingRows(reading))
  \/ \E i \in 1..Len(transactions) : RemoveTransaction(transactions[i].id)

SpecReads == Init /\ [][NextReads]_vars

(***************************************************************************)
(* The round trip: a ledger entered through the transaction form is        *)
(* exported, the exported text is imported into an empty ledger, and that  *)
(* ledger is exported again.                                               *)
(***************************************************************************)
\* the first form submitted
RoundTripForms ==
  { Form(d, x, a, t) :
      d \in { <<>>, c_day.text },
      x \in { <<>>, c_gym.text, c_coffee.text, <<"D","i","n","i","n","g"," ","O","u","t">>,
              <<"a",",","b">>, <<"s","a","y"," ","\"","h","i","\"">> },
      a \in { c_45.text, c_4p50.text },
      t \in { s_expense, s_income } }

\* a category name with a comma
RoundTripCategories == { Word(<<"a",",","b">>) }

Building == last.op \in { "init", "submitTransaction", "addCategory", "importCSV" }

RoundTripSubmit ==
  /\ Building
  /\ Len(transactions) < MaxRows
  /\ \E f \in (IF transactions = <<>> THEN RoundTripForms ELSE StoreForms) :
       \E cat \in formCategories(categories) : SubmitTransaction(f, cat)

RoundTripAddCategory ==
  Building /\ \E name \in RoundTripCategories : AddCategory(name)

\* the ledger may start from an imported file
RoundTripLoad ==
  /\ last.op = "init"
  /\ \E f \in StoreFiles : ImportFile(f)

RoundTripExport == Building /\ ExportCSV

\* importCSV of the exported text, with prev = []
RoundTripImport ==
  /\ last.op = "exportCSV"
  /\ transactions' = importedBy(build, last.text, <<>>, nextId)
  /\ nextId' = nextId + Len(transactions')
  /\ issued' = issued \cup Range(frontIds(transactions', Len(transactions')))
  /\ last' = [ op |-> "reimport", first |-> last.text,
               ids |-> frontIds(transactions', Len(transactions')) ]
  /\ Effects(IF hasLines(last.text) THEN { pf_transactions } ELSE {})
  /\ UNCHANGED << build, goals, categories, prev >>

RoundTripExportAgain ==
  /\ last.op = "reimport"
  /\ last' = [ op |-> "reexport", first |-> last.first, ids |-> <<>>,
               text |-> IF build = "main" THEN exportCSV(transactions)
                        ELSE exportCSV_fixed(transactions) ]
  /\ Effects({})
  /\ UNCHANGED << build, transactions, goals, categories, nextId, prev, issued >>

NextRoundTrip ==
  \/ RoundTripSubmit
  \/ RoundTripAddCategory
  \/ RoundTripLoad
  \/ RoundTripExport
  \/ RoundTripImport
  \/ RoundTripExportAgain

SpecRoundTrip == Init /\ [][NextRoundTrip]_vars

(***************************************************************************)
(* The store on a device whose localStorage.setItem can throw              *)
(***************************************************************************)
\* what is entered there: one form that is accepted and one that is not,
\* one goal, a new category name and a known one, a file of one row
PersistForms ==
  { Form(c_day.text, c_gym.text, c_45.text, s_expense),
    Form(c_day.text, c_gym.text, <<>>, s_expense) }

PersistGoalForms == { GoalForm(<<"C","a","r">>, <<"1","0","0","0">>, <<>>, <<>>) }

PersistCategoryNames == { Word(<<"P","e","t","s">>), Word(s_Other) }

PersistFiles ==
  { File(<<>>, << Row(c_day, c_gym, c_m1200, c_rent, c_blank, 4) >>, <<"\n">>) }

NextPersist ==
  \/ \E f \in PersistForms : SubmitTransaction(f, categories[1])
  \/ \E i \in 1..Len(transactions) : RemoveTransaction(transactions[i].id)
  \/ \E f \in PersistGoalForms : SubmitGoal(f)
  \/ \E i \in 1..Len(goals) : RemoveGoal(goals[i].id)
  \/ \E name \in PersistCategoryNames : AddCategory(name)
  \/ \E f \in PersistFiles : nextId + rowCount(f) <= MaxIds + 1 /\ ImportFile(f)
  \/ \E confirmed \in BOOLEAN : ResetAll(confirmed)

SpecPersist == InitWith("main", TRUE) /\ [][NextPersist]_vars

(***************************************************************************)
(* The two forms alone, with whatever can be typed into them               *)
(***************************************************************************)
\* an amount typed into a form: its text, and whether it is a number above 0
Typed(text, positive) == [ text |-> text, positive |-> positive ]

TypedAmounts ==
  { Typed(<<>>, FALSE),
    Typed(<<" ">>, FALSE),
    Typed(<<"a","b","c">>, FALSE),
    Typed(<<"1","2","a","b","c">>, FALSE),
    Typed(<<"0">>, FALSE),
    Typed(<<"0",".","0","0">>, FALSE),
    Typed(<<"-","5">>, FALSE),
    Typed(<<"0",".","0","1">>, TRUE),
    Typed(<<"4","5">>, TRUE),
    Typed(<<" ","4",".","5","0">>, TRUE) }

TypedForms ==
  { Form(d, c_gym.text, a.text, t) :
      d \in { <<>>, c_day.text }, a \in TypedAmounts, t \in { s_expense, s_income } }

TypedGoalForms ==
  { GoalForm(n, t, c, <<>>) :
      n \in { <<>>, <<"C","a","r">> },
      t \in { <<>>, <<"0">>, <<"1","0","0","0">> },
      c \in { <<>>, <<"2","0","0","0">> } }

NextForms ==
  \/ \E f \in TypedForms : SubmitTransaction(f, categories[1])
  \/ \E f \in TypedGoalForms : SubmitGoal(f)

SpecForms == Init /\ [][NextForms]_vars

(***************************************************************************)
(* The dashboard over a collection an earlier session left in localStorage *)
(***************************************************************************)
MaxTx == 3

s_lastMonth == <<"2","0","2","4","-","0","1">>

Entry(date, amount, category) ==
  [ date |-> date, description |-> c_gym.text, amount |-> Num(amount),
    category |-> category ]

\* what the form and importCSV of unnamed/part_000 can have stored: amounts
\* of either sign, with and without a date
Entries ==
  { Entry(<<"2","0","2","4","-","0","2","-","0","1">>, 10, DEFAULT_CATEGORIES[1]),
    Entry(<<"2","0","2","4","-","0","2","-","0","3">>, -30, DEFAULT_CATEGORIES[1]),
    Entry(<<"2","0","2","4","-","0","2","-","0","5">>, 20, s_Other),
    Entry(<<"2","0","2","4","-","0","1","-","1","5">>, -(1200 * Scale), DEFAULT_CATEGORIES[1]),
    Entry(<<>>, 45 * Scale, s_Other) }

\* what the copy in personal-finance-dashboard_fixed can have stored: its
\* form and its importCSV keep no sign
Entries_fixed ==
  { [ e EXCEPT !.amount = abs(e.amount) ] : e \in Entries }

\* the collection with its ids, the newest record first
withIds(es) == [ i \in 1..Len(es) |-> [ id |-> Len(es) + 1 - i ] @@ es[i] ]

MonthFilters == { <<>>, s_thisMonth, s_lastMonth }
CategoryFilters == { s_All, DEFAULT_CATEGORIES[1] }

\* dates as importCSV keeps them from files that spell the month: the first
\* ten characters of the cell, whatever they are
TrendEntries ==
  { Entry(<<"2","0","2","4","-","0","2","-","0","1">>, 10, DEFAULT_CATEGORIES[1]),
    Entry(<<"2","0","2","4","-","0","1","-","1","5">>, -(1200 * Scale), DEFAULT_CATEGORIES[1]),
    Entry(<<"2","0","2","4","-","0","1","-","2","0">>, 20, s_Other),
    Entry(<<"a","p","r","i","l"," ","3">>, -30, s_Other),
    Entry(<<"M","a","r","c","h"," ","9">>, 45 * Scale, s_Other),
    Entry(<<>>, -(45 * Scale), s_Other) }

InitDashboardOver(b, entries) ==
  /\ build = b
  /\ \E es \in SeqsUpTo(entries, MaxTx) :
       /\ transactions = withIds(es)
       /\ nextId = Len(es) + 1
       /\ issued = 1..Len(es)
  /\ goals = <<>>
  /\ categories = defaultCategories(b)
  /\ last = [ op |-> "init", ids |-> <<>> ]
  /\ storage = savedAll(transactions, goals, categories, {})
  /\ saves = [ issued |-> Keys, failed |-> {} ]
  /\ prev = [ transactions |-> transactions, goals |-> goals,
              categories |-> categories, issued |-> issued, storage |-> storage ]
  /\ filterMonth = s_thisMonth
  /\ filterCategory = s_All
  /\ setItemThrows = FALSE
  /\ reading = <<>>

InitDashboard(b) == InitDashboardOver(b, IF b = "main" THEN Entries ELSE Entries_fixed)

\* onChange of the month input and of the category select
SetFilterMonth(month) ==
  /\ filterMonth' = month
  /\ last' = [ op |-> "setFilterMonth", ids |-> <<>>,
               month |-> filterMonth, category |-> filterCategory ]
  /\ prev' = Snapshot
  /\ saves' = [ issued |-> {}, failed |-> {} ]
  /\ UNCHANGED << build, transactions, goals, categories, nextId, issued,
                  filterCategory, storage, setItemThrows, reading >>

SetFilterCategory(category) ==
  /\ filterCategory' = category
  /\ last' = [ op |-> "setFilterCategory", ids |-> <<>>,
               month |-> filterMonth, category |-> filterCategory ]
  /\ prev' = Snapshot
  /\ saves' = [ issued |-> {}, failed |-> {} ]
  /\ UNCHANGED << build, transactions, goals, categories, nextId, issued,
                  filterMonth, storage, setItemThrows, reading >>

NextDashboard ==
  \/ \E m \in MonthFilters : SetFilterMonth(m)
  \/ \E c \in CategoryFilters : SetFilterCategory(c)

SpecDashboard == InitDashboard("main") /\ [][NextDashboard]_vars

SpecDashboardFixed == InitDashboard("fixed") /\ [][NextDashboard]_vars

\* the trend alone, over dates of any spelling; the filters do not enter it
NextTrend == \E m \in MonthFilters : SetFilterMonth(m)

SpecTrend == InitDashboardOver("main", TrendEntries) /\ [][NextTrend]_vars

(***************************************************************************)
(* The goals and their progress bars                                       *)
(***************************************************************************)
\* targets and amounts saved so far as the number inputs (step 0.01) take them
ProgressForms ==
  { GoalForm(<<"C","a","r">>, t, c, <<>>) :
      t \in { <<"0">>, <<"0",".","5">>, <<"2","0","0">> },
      c \in { <<>>, <<"0",".","2","5">>, <<"1">>, <<"2","9">>, <<"2","0","0","0">> } }

NextGoals ==
  \/ \E f \in ProgressForms : SubmitGoal(f)
  \/ \E i \in 1..Len(goals) : RemoveGoal(goals[i].id)

SpecGoals == Init /\ [][NextGoals]_vars

(***************************************************************************)
(* Startup: App is constructed over a localStorage that holds anything     *)
(***************************************************************************)
\* a transaction and a goal as an earlier session saved them
savedTransaction ==
  [ id |-> 0, date |-> c_day.text, description |-> c_gym.text,
    amount |-> Num(-45 * Scale), category |-> s_Other ]

savedGoal ==
  [ id |-> 0, name |-> <<"C","a","r">>, target |-> Num(1000 * Scale),
    current |-> Num(0), due |-> <<>> ]

\* the texts of others found under a key
ForeignItems ==
  { Absent, Text(<<>>), Text(t_broken), Text(t_null), Text(t_object), Text(t_array) }

StoredTransactions ==
  ForeignItems \cup { stringify(<< savedTransaction >>, numberFieldsOf(pf_transactions)) }

StoredGoals ==
  ForeignItems \cup { stringify(<< savedGoal >>, numberFieldsOf(pf_goals)) }

StoredCategories ==
  ForeignItems \cup { stringify(Append(DEFAULT_CATEGORIES, <<"P","e","t","s">>), {}) }

\* before App is constructed
InitClosed ==
  /\ build = "main"
  /\ transactions = <<>>
  /\ goals = <<>>
  /\ categories = <<>>
  /\ nextId = 1
  /\ last = [ op |-> "closed", ids |-> <<>> ]
  /\ \E t \in StoredTransactions, g \in StoredGoals, c \in StoredCategories :
       storage = [ pf_transactions |-> t, pf_goals |-> g, pf_categories |-> c ]
  /\ saves = [ issued |-> {}, failed |-> {} ]
  /\ prev = [ transactions |-> <<>>, goals |-> <<>>, categories |-> <<>>,
              issued |-> {}, storage |-> storage ]
  /\ issued = {}
  /\ filterMonth = s_thisMonth
  /\ filterCategory = s_All
  /\ setItemThrows = FALSE
  /\ reading = <<>>

\* what the three useState initialisers get from loadLS
loaded ==
  [ pf_transactions |-> loadLS(storage.pf_transactions, <<>>),
    pf_goals        |-> loadLS(storage.pf_goals, <<>>),
    pf_categories   |-> loadLS(storage.pf_categories, DEFAULT_CATEGORIES) ]

\* App(): the three loadLS calls and the first render, which throws a
\* TypeError when a collection has no .filter, .reduce or .map; the save
\* effects run after a render that did not throw
Startup ==
  /\ last.op = "closed"
  /\ transactions' = loaded.pf_transactions.items
  /\ goals' = loaded.pf_goals.items
  /\ categories' = loaded.pf_categories.items
  /\ last' = [ op |-> "startup", ids |-> <<>>,
               kinds |-> [ pf_transactions |-> loaded.pf_transactions.kind,
                           pf_goals |-> loaded.pf_goals.kind,
                           pf_categories |-> loaded.pf_categories.kind ],
               fatal |-> \E key \in Keys : ~isUsable(loaded[key]) ]
  /\ prev' = Snapshot
  /\ IF \A key \in Keys : isUsable(loaded[key])
       THEN Effects(Keys)
       ELSE /\ saves' = [ issued |-> {}, failed |-> {} ]
            /\ UNCHANGED << storage, filterMonth, filterCategory, setItemThrows,
                            reading >>
  /\ UNCHANGED << build, nextId, issued >>

SpecStartup == InitClosed /\ [][Startup]_vars

(***************************************************************************)
(* What a file stands for, read off its cells                              *)
(***************************************************************************)
\* the lines of the file that are not empty
NonEmptyLines(f) == SelectSeq(fileLines(f), LAMBDA L : lineText(L) # <<>>)

\* the columns a line names
NamedColumns(L) == { L[i].col : i \in 1..Len(L) }

RequiredColumns == { "date", "description", "amount", "category" }

\* a reading of non-empty lines ls: whether the first line is a header (it
\* names all four required columns), that line, and the data lines
ReadingOf(ls) ==
  IF ls # <<>> /\ RequiredColumns \subseteq NamedColumns(ls[1])
    THEN [ header |-> TRUE, hdr |-> ls[1], data |-> Tail(ls) ]
    ELSE [ header |-> FALSE, hdr |-> <<>>, data |-> ls ]

Reading(f) == ReadingOf(NonEmptyLines(f))

\* the header of reading r has a type column
HasTypeColumn(r) == r.header /\ "type" \in NamedColumns(r.hdr)

\* the first line holds the four names only inside longer words
FirstLineAmbiguous(f) == f.hdr # <<>> /\ "dates" \in NamedColumns(f.hdr)

\* the cell of data line L that holds field `name`: under the header's
\* column of that name, or at the fixed place when there is no header
FieldCell(r, L, name, fixed) ==
  IF r.header
    THEN IF (CHOOSE i \in 1..Len(r.hdr) : r.hdr[i].col = name) <= Len(L)
           THEN L[CHOOSE i \in 1..Len(r.hdr) : r.hdr[i].col = name]
           ELSE c_blank
    ELSE IF fixed <= Len(L) THEN L[fixed] ELSE c_blank

DateCell(r, L)        == FieldCell(r, L, "date", 1)
DescriptionCell(r, L) == FieldCell(r, L, "description", 2)
AmountCell(r, L)      == FieldCell(r, L, "amount", 3)
CategoryCell(r, L)    == FieldCell(r, L, "category", 4)
TypeCell(r, L)        == FieldCell(r, L, "type", 5)

\* the number a cell's text parses to, 0 when it parses to none
NumOrZero(c) == IF c.num.nan THEN Num(0) ELSE c.num

\* the transactions the last handler put in front of the collection
Imported == SubSeq(transactions, 1, Len(transactions) - Len(prev.transactions))

\* the reading of the file imported last
LastReading == { Reading(last.file) }

(***************************************************************************)
(* C1: in importCSV, when the header has a type column, every parsed row's *)
(* amount is -abs(parsed amount) if the row's type, lower-cased, starts    *)
(* with "exp", and +abs(parsed amount) for any other type (blank or        *)
(* missing too), whatever sign the amount field is written with.           *)
(***************************************************************************)
C1_TypeColumnDecidesSign ==
  last.op = "importCSV" =>
    \A r \in LastReading :
      HasTypeColumn(r) =>
        /\ Len(Imported) = Len(r.data)
        /\ \A i \in 1..Len(r.data) :
             Imported[i].amount =
               IF TypeCell(r, r.data[i]).exp
                 THEN neg(abs(NumOrZero(AmountCell(r, r.data[i]))))
                 ELSE abs(NumOrZero(AmountCell(r, r.data[i])))

\* a row written 45 with type expense became -45, and a row written -1200
\* with type income became 1200
C1_Witness ==
  /\ last.op = "importCSV"
  /\ \E r \in LastReading :
       /\ HasTypeColumn(r)
       /\ Len(Imported) = Len(r.data)
       /\ \E i \in 1..Len(r.data) :
            /\ TypeCell(r, r.data[i]).exp
            /\ AmountCell(r, r.data[i]) = c_45
            /\ Imported[i].amount = Num(-(45 * Scale))
       /\ \E i \in 1..Len(r.data) :
            /\ TypeCell(r, r.data[i]) = c_income
            /\ AmountCell(r, r.data[i]) = c_m1200
            /\ Imported[i].amount = Num(1200 * Scale)

(***************************************************************************)
(* C2: in importCSV, when there is no type column (no header, or a header  *)
(* without type), every parsed row's amount keeps the literal sign of its  *)
(* amount field: a negative field gives a negative amount, a non-negative  *)
(* field a non-negative amount, and no absolute value is forced.           *)
(***************************************************************************)
C2_SignKeptWithoutType ==
  last.op = "importCSV" =>
    \A r \in LastReading :
      ~HasTypeColumn(r) =>
        /\ Len(Imported) = Len(r.data)
        /\ \A i \in 1..Len(r.data) :
             isNegative(Imported[i].amount)
               <=> isNegative(NumOrZero(AmountCell(r, r.data[i])))

(***************************************************************************)
(* C4: importCSV rejects no row: it makes one transaction of every         *)
(* non-empty data line, each field defaults on its own when it is missing  *)
(* or invalid (date "", description "", amount 0, category "Other"), and   *)
(* no imported amount is NaN.                                              *)
(***************************************************************************)
C4_EveryRowImportedWithDefaults ==
  last.op = "importCSV" =>
    \A r \in LastReading :
      /\ Len(Imported) = Len(r.data)
      /\ \A i \in 1..Len(r.data) :
           /\ ~Imported[i].amount.nan
           /\ AmountCell(r, r.data[i]).num.nan => Imported[i].amount = Num(0)
           /\ DateCell(r, r.data[i]).str = <<>> => Imported[i].date = <<>>
           /\ DescriptionCell(r, r.data[i]).str = <<>>
                => Imported[i].description = <<>>
           /\ CategoryCell(r, r.data[i]).str = <<>>
                => Imported[i].category = s_Other

\* a line with an amount that is no number and no category at all, beside a
\* date and a description that are there
C4_Witness ==
  /\ last.op = "importCSV"
  /\ \E r \in LastReading :
       /\ Len(Imported) = Len(r.data)
       /\ \E i \in 1..Len(r.data) :
            /\ AmountCell(r, r.data[i]) = c_abc
            /\ CategoryCell(r, r.data[i]) = c_blank
            /\ DateCell(r, r.data[i]) = c_day
            /\ Imported[i].amount = Num(0)
            /\ Imported[i].category = s_Other
            /\ Imported[i].date = c_day.str

(***************************************************************************)
(* C5: importCSV takes the first line for a header exactly when it names,  *)
(* in any case, all four of date, description, amount and category; then   *)
(* the header line gives no transaction and every field of every data row  *)
(* comes from the column where its name stands in the header, in any       *)
(* column order; otherwise every line, the first too, is data in the fixed *)
(* order date, description, amount, category.                              *)
(***************************************************************************)
C5_HeaderDecidesColumns ==
  (last.op = "importCSV" /\ ~FirstLineAmbiguous(last.file)) =>
    \A r \in LastReading :
      /\ Len(Imported) = Len(r.data)
      /\ \A i \in 1..Len(r.data) :
           /\ Imported[i].date = DateCell(r, r.data[i]).d10
           /\ Imported[i].description = DescriptionCell(r, r.data[i]).str
           /\ abs(Imported[i].amount) = abs(NumOrZero(AmountCell(r, r.data[i])))
           /\ Imported[i].category
                = IF CategoryCell(r, r.data[i]).str = <<>>
                    THEN s_Other
                    ELSE CategoryCell(r, r.data[i]).str
(***************************************************************************)
(* C3: for every transaction collection whose description and category    *)
(* fields hold no comma, double quote or newline, exporting it, importing  *)
(* that text into an empty ledger and exporting again gives exactly the    *)
(* text of the first export.                                               *)
(***************************************************************************)
Unsafe == { ",", "\"", "\n" }

SafeText(txs) ==
  \A i \in 1..Len(txs) :
    /\ Range(txs[i].description) \cap Unsafe = {}
    /\ Range(txs[i].category) \cap Unsafe = {}

\* no date, description or category starts or ends with white space, no
\* date holds a comma, quote or newline or is longer than the ten characters
\* importCSV keeps, no category is empty, every amount is a number
Unpadded(txs) ==
  \A i \in 1..Len(txs) :
    /\ Range(txs[i].date) \cap Unsafe = {}
    /\ Len(txs[i].date) <= DateLen
    /\ txs[i].category # <<>>
    /\ ~txs[i].amount.nan
    /\ txs[i].date # <<>>
         => /\ txs[i].date[1] \notin Whitespace
            /\ txs[i].date[Len(txs[i].date)] \notin Whitespace
    /\ txs[i].description # <<>>
         => /\ txs[i].description[1] \notin Whitespace
            /\ txs[i].description[Len(txs[i].description)] \notin Whitespace
    /\ txs[i].category # <<>>
         => /\ txs[i].category[1] \notin Whitespace
            /\ txs[i].category[Len(txs[i].category)] \notin Whitespace

idsOf(coll) == { coll[i].id : i \in 1..Len(coll) }

C6_RemoveAbsentIsNoOp ==
  /\ (last.op = "removeTransaction" /\ last.id \notin idsOf(prev.transactions))
       => transactions = prev.transactions
  /\ (last.op = "removeGoal" /\ last.id \notin idsOf(prev.goals))
       => goals = prev.goals
  /\ last.op = "removeTransaction"
       => /\ last.id \notin idsOf(transactions)
          /\ removeTransaction(last.id, transactions) = transactions
  /\ last.op = "removeGoal"
       => /\ last.id \notin idsOf(goals)
          /\ removeGoal(last.id, goals) = goals

\* an id that was given out and removed earlier is removed again from a
\* collection that still holds another transaction
C6_Witness ==
  /\ last.op = "removeTransaction"
  /\ last.id \in issued
  /\ last.id \notin idsOf(prev.transactions)
  /\ prev.transactions # <<>>
  /\ transactions = prev.transactions

(***************************************************************************)
(* C7: no two transactions and no two goals in the store share an id, and  *)
(* the ids a handler gives to new records differ from each other and from  *)
(* every id given out before, the ids of removed records included.         *)
(***************************************************************************)
distinctIds(coll) ==
  \A i, j \in 1..Len(coll) : coll[i].id = coll[j].id => i = j

C7_IdsUniqueNeverReused ==
  /\ distinctIds(transactions)
  /\ distinctIds(goals)
  /\ Range(last.ids) \cap prev.issued = {}
  /\ \A i, j \in 1..Len(last.ids) : last.ids[i] = last.ids[j] => i = j
  /\ idsOf(transactions) \cup idsOf(goals) \subseteq issued

\* a record is created after an earlier record was removed
C7_Witness ==
  /\ last.ids # <<>>
  /\ \E id \in prev.issued : id \notin idsOf(prev.transactions) \cup idsOf(prev.goals)
  /\ Range(last.ids) \cap prev.issued = {}

(***************************************************************************)
(* C8: resetAll, whenever it is called, empties the transactions and the   *)
(* goals and sets the categories to the default list, asking nothing.      *)
(***************************************************************************)
Cleared ==
  /\ transactions = <<>>
  /\ goals = <<>>
  /\ categories = defaultCategories(build)

Untouched ==
  /\ transactions = prev.transactions
  /\ goals = prev.goals
  /\ categories = prev.categories

\* C8 as stated
C8_ResetAlwaysClears == last.op = "resetAll" => Cleared

\* C8 with the question resetAll asks: it clears when confirm() answers yes
\* and changes nothing when confirm() answers no
C8_ResetClearsWhenConfirmed ==
  last.op = "resetAll" => IF last.confirmed THEN Cleared ELSE Untouched

\* a confirmed reset of a store that held a transaction and an added category
C8_Witness ==
  /\ last.op = "resetAll"
  /\ last.confirmed
  /\ prev.transactions # <<>>
  /\ prev.categories # defaultCategories(build)
  /\ Cleared

(***************************************************************************)
(* C9: a category name that is in the category sequence stays in it in     *)
(* every later state.                                                      *)
(***************************************************************************)
\* C9 as stated, step by step
C9_CategoriesNeverDeleted ==
  [][Range(categories) \subseteq Range(categories')]_vars

\* C9 except for a confirmed resetAll, which keeps the default names only
C9_CategoriesKeptUnlessReset ==
  [][ /\ Range(defaultCategories(build)) \subseteq Range(categories')
      /\ \/ (last'.op = "resetAll" /\ last'.confirmed)
         \/ Range(categories) \subseteq Range(categories') ]_vars

\* an added category is still there after a later addCategory of a new name
\* and a declined reset
C9_Witness ==
  /\ last.op \in { "addCategory", "resetAll" }
  /\ Len(prev.categories) > Len(defaultCategories(build))
  /\ Range(prev.categories) \subseteq Range(categories)
  /\ last.op = "resetAll" => ~last.confirmed
  /\ last.op = "addCategory" => last.name.str # <<>>

(***************************************************************************)
(* C10: addCategory(name) leaves the categories as they were when the      *)
(* trimmed name is empty or already there (same case), and otherwise puts  *)
(* the trimmed name at the end; the sequence never holds a name twice and  *)
(* the names already there keep their order.                               *)
(***************************************************************************)
noDuplicates(cats) == \A i, j \in 1..Len(cats) : cats[i] = cats[j] => i = j

C10_AddCategoryAppendsOnce ==
  /\ noDuplicates(categories)
  /\ last.op = "addCategory"
       => /\ categories =
               IF last.name.str = <<>> \/ last.name.str \in Range(prev.categories)
                 THEN prev.categories
                 ELSE Append(prev.categories, last.name.str)
          /\ SubSeq(categories, 1, Len(prev.categories)) = prev.categories

\* a name typed with spaces around it is appended without them, after a name
\* that differs from a default name by case only was appended
C10_Witness ==
  /\ last.op = "addCategory"
  /\ last.name.text # last.name.str
  /\ last.name.str # <<>>
  /\ categories = Append(prev.categories, last.name.str)
  /\ Len(categories) = Len(defaultCategories(build)) + MaxCats
(***************************************************************************)
(* C11: in every reachable state the category of every transaction is a    *)
(* name of the category sequence, or "Other", or "Uncategorized".          *)
(***************************************************************************)
C11_CategoryRegistered ==
  \A i \in 1..Len(transactions) :
    transactions[i].category \in Range(categories) \cup { s_Other, s_Uncategorized }
(***************************************************************************)
(* C12: after every handler, a save was issued for each collection the     *)
(* handler changed; where the save succeeded the item under the key reads  *)
(* back as the collection in memory; where it failed the item is the one   *)
(* that was there, and the collections in memory are what the handler made *)
(* of them all the same.                                                   *)
(***************************************************************************)
inMemory(key) ==
  CASE key = pf_transactions -> transactions
    [] key = pf_goals        -> goals
    [] OTHER                 -> categories

before(key) ==
  CASE key = pf_transactions -> prev.transactions
    [] key = pf_goals        -> prev.goals
    [] OTHER                 -> prev.categories

fallbackOf(key) == IF key = pf_categories THEN defaultCategories(build) ELSE <<>>

\* what the last handler had to do to the collections in memory
MutationApplied ==
  /\ (last.op = "submitTransaction" /\ last.accepted)
       => /\ Len(transactions) = Len(prev.transactions) + 1
          /\ SubSeq(transactions, 2, Len(transactions)) = prev.transactions
          /\ goals = prev.goals
  /\ last.op = "removeTransaction"
       => idsOf(transactions) = idsOf(prev.transactions) \ { last.id }
  /\ (last.op = "submitGoal" /\ last.accepted)
       => /\ Len(goals) = Len(prev.goals) + 1
          /\ SubSeq(goals, 2, Len(goals)) = prev.goals
  /\ last.op = "removeGoal"
       => idsOf(goals) = idsOf(prev.goals) \ { last.id }
  /\ last.op = "addCategory"
       => Range(categories) =
            Range(prev.categories)
              \cup (IF last.name.str = <<>> THEN {} ELSE { last.name.str })
  /\ last.op = "importCSV"
       => /\ Len(transactions) = Len(prev.transactions) + Len(last.ids)
          /\ SubSeq(transactions, Len(last.ids) + 1, Len(transactions))
               = prev.transactions
  /\ (last.op = "resetAll" /\ last.confirmed) => Cleared

C12_SaveAfterEveryMutation ==
  /\ \A key \in Keys :
       /\ inMemory(key) # before(key) => key \in saves.issued
       /\ key \in saves.issued \ saves.failed
            => loadLS(storage[key], fallbackOf(key)) = JsArray(inMemory(key))
       /\ key \in saves.failed => storage[key] = prev.storage[key]
       /\ key \notin saves.issued => storage[key] = prev.storage[key]
  /\ saves.failed \subseteq saves.issued
  /\ MutationApplied

\* the save of a transaction failed earlier and the transaction is still in
\* memory; a goal was then added, and its save failed too
C12_Witness ==
  /\ last.op = "submitGoal"
  /\ last.accepted
  /\ saves.failed = { pf_goals }
  /\ transactions # <<>>
  /\ loadLS(storage.pf_transactions, <<>>) # JsArray(transactions)
  /\ goals # <<>>
  /\ storage.pf_goals = prev.storage.pf_goals

(***************************************************************************)
(* C13: loadLS gives the fallback when the key is absent or the stored     *)
(* text is malformed and the stored value otherwise, so at startup each of *)
(* the three collections is a usable collection and the first render does  *)
(* not fail.                                                               *)
(***************************************************************************)
C13_StartupNeverFatal ==
  last.op = "startup"
    => /\ \A key \in Keys :
            /\ (prev.storage[key].kind = "absent"
                  \/ (prev.storage[key].kind = "text"
                        /\ prev.storage[key].text \in { <<>>, t_broken }))
                 => inMemory(key) = fallbackOf(key)
            /\ prev.storage[key].kind = "saved"
                 => inMemory(key) = prev.storage[key].doc
            /\ last.kinds[key] = "array"
       /\ ~last.fatal
(***************************************************************************)
(* C14: a transaction form whose amount is empty, no number or not above 0 *)
(* leaves the transactions as they were, a goal form without a name or     *)
(* without a target leaves the goals as they were, and neither leaves a    *)
(* partial record behind: nothing at all changes in the store.             *)
(***************************************************************************)
\* the typed amount whose text the form holds
typedAmount(f) == CHOOSE a \in TypedAmounts : a.text = f.amount

StoreUntouched ==
  /\ transactions = prev.transactions
  /\ goals = prev.goals
  /\ categories = prev.categories
  /\ issued = prev.issued
  /\ storage = prev.storage

C14_InvalidInputRejected ==
  /\ (last.op = "submitTransaction" /\ ~typedAmount(last.form).positive)
       => StoreUntouched
  /\ (last.op = "submitGoal" /\ (last.form.name = <<>> \/ last.form.target = <<>>))
       => StoreUntouched
  /\ \A i \in 1..Len(transactions) :
       /\ ~transactions[i].amount.nan
       /\ transactions[i].amount.v # 0
       /\ DOMAIN transactions[i] = { "id", "date", "description", "amount", "category" }
  /\ \A i \in 1..Len(goals) :
       /\ goals[i].name # <<>>
       /\ ~goals[i].target.nan
       /\ DOMAIN goals[i] = { "id", "name", "target", "current", "due" }

\* a form whose amount starts with digits but is no number is turned down
\* when the store already holds a transaction
C14_Witness ==
  /\ last.op = "submitTransaction"
  /\ last.form.amount = <<"1","2","a","b","c">>
  /\ ~last.accepted
  /\ prev.transactions # <<>>
  /\ StoreUntouched
(***************************************************************************)
(* C15: a handler that leaves the transaction collection as it is, as the  *)
(* month filter and the category filter do, leaves the monthly trend of    *)
(* the totals as it is, whatever value the filters take.                   *)
(***************************************************************************)
Totals == totals(transactions, filterMonth, filterCategory)

C15_TrendIgnoresFilters ==
  [][ transactions' = transactions
        => totals(transactions', filterMonth', filterCategory').byMonth = Totals.byMonth ]_vars

\* the trend has a month of this year's January and one of February, and the
\* last change of a filter took transactions out of the filtered summaries
C15_Witness ==
  /\ last.op \in { "setFilterMonth", "setFilterCategory" }
  /\ Len(Totals.byMonth) = 2
  /\ Len(filteredTx(transactions, filterMonth, filterCategory))
       < Len(filteredTx(transactions, last.month, last.category))
  /\ Totals.byMonth[1].ym = s_lastMonth
  /\ Totals.byMonth[1].expenses # fzero
(***************************************************************************)
(* C16: the category breakdown has one entry for each category that has an *)
(* expense (amount < 0) among the filtered transactions, its value is the  *)
(* sum of abs(amount) over the filtered expenses of that category, no      *)
(* transaction with amount >= 0 adds to an entry, and where the filtered   *)
(* transactions hold no expense the breakdown is empty.                    *)
(***************************************************************************)
Filtered == filteredTx(transactions, filterMonth, filterCategory)

Breakdown ==
  IF build = "main" THEN Totals.byCat
  ELSE totals_fixed(transactions, filterMonth, filterCategory).byCat

\* the filtered expenses of a category, and the sum of what they spent
ExpensesOf(name) ==
  LET spent(t) == isNegative(t.amount) /\ t.category = name
  IN  SelectSeq(Filtered, spent)

Spent(name) ==
  LET es == ExpensesOf(name)
  IN  sum([ i \in 1..Len(es) |-> toFloat(abs(es[i].amount)) ])

C16_BreakdownCountsExpensesOnly ==
  /\ \A i \in 1..Len(Breakdown) :
       /\ ExpensesOf(Breakdown[i].name) # <<>>
       /\ Breakdown[i].value = Spent(Breakdown[i].name)
       /\ \A j \in 1..Len(Breakdown) : Breakdown[j].name = Breakdown[i].name => j = i
  /\ \A i \in 1..Len(Filtered) :
       isNegative(Filtered[i].amount)
         => \E k \in 1..Len(Breakdown) : Breakdown[k].name = Filtered[i].category
  /\ (\A i \in 1..Len(Filtered) : ~isNegative(Filtered[i].amount)) => Breakdown = <<>>

\* the filtered transactions hold an income and two expenses of one category
C16_Witness ==
  /\ Len(Breakdown) = 1
  /\ Len(ExpensesOf(Breakdown[1].name)) = 2
  /\ \E i \in 1..Len(Filtered) :
       ~isNegative(Filtered[i].amount) /\ Filtered[i].category = Breakdown[1].name
(***************************************************************************)
(* C17, as the claim has it: for every collection and every filter, income *)
(* is the sum of the filtered amounts >= 0, expenses the sum of abs(amount)*)
(* of the filtered amounts < 0, net is income - expenses, and net equals   *)
(* the sum of the signed amounts of the filtered transactions.             *)
(***************************************************************************)
\* the filtered amounts with those of the other sign counted as 0
Gains  == [ i \in 1..Len(Filtered) |->
              IF isNegative(Filtered[i].amount) THEN fzero ELSE toFloat(Filtered[i].amount) ]
Losses == [ i \in 1..Len(Filtered) |->
              IF isNegative(Filtered[i].amount) THEN toFloat(abs(Filtered[i].amount)) ELSE fzero ]
Signed == [ i \in 1..Len(Filtered) |-> toFloat(Filtered[i].amount) ]

IncomeExpensesNet ==
  /\ Totals.income = sum(Gains)
  /\ Totals.expenses = sum(Losses)
  /\ Totals.net = fsub(Totals.income, Totals.expenses)

C17_NetIsSignedSum ==
  /\ IncomeExpensesNet
  /\ Totals.net = sum(Signed)

(***************************************************************************)
(* C17, amended: income, expenses and net are as above, each sum taken in  *)
(* the order of the collection and rounded as JS numbers are; net equals   *)
(* the sum of the signed amounts when every filtered amount is a whole     *)
(* number, and then all three are the exact sums.                          *)
(***************************************************************************)
WholeNumbers == \A i \in 1..Len(Filtered) : Filtered[i].amount.v % Scale = 0

\* exact sums, in hundredths
RECURSIVE exactSum(_)
exactSum(vs) == IF vs = <<>> THEN 0 ELSE vs[1] + exactSum(Tail(vs))

ExactGains  == exactSum([ i \in 1..Len(Filtered) |->
                 IF Filtered[i].amount.v > 0 THEN Filtered[i].amount.v ELSE 0 ])
ExactLosses == exactSum([ i \in 1..Len(Filtered) |->
                 IF Filtered[i].amount.v < 0 THEN -Filtered[i].amount.v ELSE 0 ])

C17_NetIsIncomeMinusExpenses ==
  /\ IncomeExpensesNet
  /\ WholeNumbers =>
       /\ Totals.income = toFloat(Num(ExactGains))
       /\ Totals.expenses = toFloat(Num(ExactLosses))
       /\ Totals.net = toFloat(Num(ExactGains - ExactLosses))
       /\ Totals.net = sum(Signed)

\* the month filter was cleared, which brought in whole amounts of both
\* signs, more lost than gained
C17_Witness ==
  /\ last.op = "setFilterMonth"
  /\ filterMonth = <<>>
  /\ Len(filteredTx(transactions, last.month, last.category)) < Len(Filtered)
  /\ WholeNumbers
  /\ ExactGains > 0
  /\ ExactLosses > ExactGains
  /\ fisNegative(Totals.net)
(***************************************************************************)
(* C18, as the claim has it: for every goal with target >= 0 and           *)
(* current >= 0 the progress shown is                                      *)
(* min(100, round(current / max(target, 1) * 100)).                        *)
(***************************************************************************)
NonNegative(g) ==
  /\ ~g.target.nan /\ g.target.v >= 0
  /\ ~g.current.nan /\ g.current.v >= 0

\* Math.max(target, 1)
maxWithOne(x) == IF x.v > Scale THEN x ELSE Num(Scale)

C18_ProgressDividesByMaxOfTargetAndOne ==
  \A i \in 1..Len(goals) :
    NonNegative(goals[i]) =>
      pct(goals[i]) =
        mathMin100(mathRound(fmul(fdiv(toFloat(goals[i].current),
                                       toFloat(maxWithOne(goals[i].target))),
                                  toFloat(Num(100 * Scale)))))

(***************************************************************************)
(* C18, amended: for every goal with target >= 0 and current >= 0 the      *)
(* progress shown is min(100, round(current / d * 100)) with d the target, *)
(* or 1 where the target is 0, computed in floating point: it lies in      *)
(* 0..100, it is 100 where current >= target > 0, it is the exact value    *)
(* where that is no closer than 0.1 to a tie, and within 1 of it anywhere. *)
(***************************************************************************)
\* the divisor, and current / divisor * 100 as the fraction Parts / Whole
Divisor(g) == IF g.target.v = 0 THEN Scale ELSE g.target.v
Parts(g) == 100 * g.current.v
ExactPct(g) ==
  LET r == (2 * Parts(g) + Divisor(g)) \div (2 * Divisor(g))
  IN  IF r > 100 THEN 100 ELSE r
NearTie(g) ==
  LET twice == 2 * (Parts(g) % Divisor(g)) - Divisor(g)
  IN  5 * (IF twice < 0 THEN -twice ELSE twice) <= Divisor(g)

C18_ProgressClamped ==
  \A i \in 1..Len(goals) :
    NonNegative(goals[i]) =>
      /\ pct(goals[i]) \in 0..100
      /\ (goals[i].target.v > 0 /\ goals[i].current.v >= goals[i].target.v)
           => pct(goals[i]) = 100
      /\ ~NearTie(goals[i]) => pct(goals[i]) = ExactPct(goals[i])
      /\ pct(goals[i]) - ExactPct(goals[i]) \in { -1, 0, 1 }

\* the goal added last has a target of 0.5 and holds 1, twice its target;
\* the goal before it holds half of a target of 0.5
C18_Witness ==
  /\ last.op = "submitGoal"
  /\ Len(goals) = 2
  /\ goals[1].target = Num(50) /\ goals[1].current = Num(Scale)
  /\ pct(goals[1]) = 100
  /\ goals[2].target = Num(50) /\ goals[2].current = Num(25)
  /\ pct(goals[2]) = 50

(***************************************************************************)
(* C19, as the claim has it: a goal whose target is 0 has progress 0.      *)
(***************************************************************************)
C19_ZeroTargetZeroProgress ==
  \A i \in 1..Len(goals) :
    (~goals[i].target.nan /\ goals[i].target.v = 0) => pct(goals[i]) = 0

(***************************************************************************)
(* C19, amended: a goal whose target is 0 is measured against 1: with      *)
(* current >= 0 its progress is min(100, round(current * 100)), which is   *)
(* 0 where current is 0 and 100 from current = 1 on.                       *)
(***************************************************************************)
C19_ZeroTargetMeasuredAgainstOne ==
  \A i \in 1..Len(goals) :
    (NonNegative(goals[i]) /\ goals[i].target.v = 0) =>
      /\ pct(goals[i]) = (IF goals[i].current.v > 100 THEN 100 ELSE goals[i].current.v)
      /\ goals[i].current.v = 0 => pct(goals[i]) = 0
      /\ goals[i].current.v >= Scale => pct(goals[i]) = 100

\* the form took "0" as a target: one such goal holds 0.25, another nothing
C19_Witness ==
  /\ Len(goals) = 2
  /\ goals[1].target = Num(0) /\ goals[1].current = Num(25) /\ pct(goals[1]) = 25
  /\ goals[2].target = Num(0) /\ goals[2].current = Num(0) /\ pct(goals[2]) = 0
  /\ last.op = "submitGoal" /\ last.accepted
(***************************************************************************)
(* C20: the text exportCSV offers starts with the line                     *)
(* date,description,amount,category,type and goes on with one line for     *)
(* each transaction, in the order of the collection, whose last field is   *)
(* "expense" where the amount is below 0 and "income" otherwise; where no  *)
(* text of the transaction holds a comma or a quote the line is its date,  *)
(* description, amount and category and that type, five fields.            *)
(***************************************************************************)
ExportedLines == split(last.text, "\n")

ExportedRows == IF transactions = <<>> THEN <<>> ELSE Tail(ExportedLines)

TypeOf(t) ==
  IF t.amount.v < 0 THEN <<"e","x","p","e","n","s","e">> ELSE <<"i","n","c","o","m","e">>

C20_ExportHasTypeColumn ==
  last.op = "exportCSV" =>
    /\ ExportedLines[1] =
         <<"d","a","t","e",",","d","e","s","c","r","i","p","t","i","o","n",",",
           "a","m","o","u","n","t",",","c","a","t","e","g","o","r","y",",",
           "t","y","p","e">>
    /\ Len(ExportedLines) = 1 + (IF transactions = <<>> THEN 1 ELSE Len(transactions))
    /\ transactions = <<>> => ExportedLines[2] = <<>>
    /\ \A i \in 1..Len(ExportedRows) :
         LET fields == split(ExportedRows[i], ",")
             t      == transactions[i]
         IN  /\ fields[Len(fields)] = TypeOf(t)
             /\ (SafeText(<< t >>) /\ Range(t.date) \cap Unsafe = {})
                  => fields = << t.date, t.description, numToString(t.amount),
                                 t.category, TypeOf(t) >>

\* two transactions of different sign were exported
C20_Witness ==
  /\ last.op = "exportCSV"
  /\ Len(transactions) = 2
  /\ \E i, j \in 1..2 : transactions[i].amount.v < 0 /\ transactions[j].amount.v > 0
(***************************************************************************)
(* C23: the filtered view holds exactly the transactions, in the order of  *)
(* the collection, whose date starts with the month filter (any date where *)
(* the month filter is empty) and whose category is the category filter    *)
(* (any category where that filter is "All"); with an empty month filter   *)
(* and the category filter "All" it is the whole collection.               *)
(***************************************************************************)
\* the first 7 characters of a date, or all of a shorter one
YearMonth(date) == [ k \in 1..(IF Len(date) < 7 THEN Len(date) ELSE 7) |-> date[k] ]

\* the positions of the collection that pass the two filters
Passing ==
  { i \in 1..Len(transactions) :
      /\ filterMonth = <<>> \/ YearMonth(transactions[i].date) = filterMonth
      /\ filterCategory = <<"A","l","l">> \/ transactions[i].category = filterCategory }

\* the j-th position of Passing, counted from the front
NthPassing(j) == CHOOSE i \in Passing : Cardinality({ k \in Passing : k <= i }) = j

C23_FilteredViewIsExact ==
  /\ Len(Filtered) = Cardinality(Passing)
  /\ \A j \in 1..Len(Filtered) : Filtered[j] = transactions[NthPassing(j)]
  /\ (filterMonth = <<>> /\ filterCategory = <<"A","l","l">>) => Filtered = transactions

\* both filters are set, the category filter last; two transactions pass, in
\* the order of the collection, and a third of the same month is held back
\* by its category
C23_Witness ==
  /\ last.op = "setFilterCategory"
  /\ filterMonth # <<>>
  /\ filterCategory # <<"A","l","l">>
  /\ Len(Filtered) = 2
  /\ Filtered[1].id > Filtered[2].id
  /\ \E i \in 1..Len(transactions) :
       /\ YearMonth(transactions[i].date) = filterMonth
       /\ transactions[i].category # filterCategory
(***************************************************************************)
(* C22, as the claim has it: the monthly trend has one bucket for each     *)
(* distinct non-empty year-month prefix of a date in the collection and no *)
(* other, a transaction without a date adds to no bucket, the income of a  *)
(* bucket is the sum of its amounts >= 0 and its expenses the sum of       *)
(* abs(amount) of its amounts < 0, and the buckets stand in strictly       *)
(* ascending order of the year-month string.                               *)
(***************************************************************************)
Trend == Totals.byMonth

Months == { YearMonth(transactions[i].date) : i \in 1..Len(transactions) } \ { <<>> }

\* the transactions of a month, in the order of the collection
InMonth(ym) ==
  LET dated(t) == YearMonth(t.date) = ym
  IN  SelectSeq(transactions, dated)

GainsIn(ym) ==
  LET ts == InMonth(ym)
  IN  sum([ i \in 1..Len(ts) |->
              IF isNegative(ts[i].amount) THEN fzero ELSE toFloat(ts[i].amount) ])

LossesIn(ym) ==
  LET ts == InMonth(ym)
  IN  sum([ i \in 1..Len(ts) |->
              IF isNegative(ts[i].amount) THEN toFloat(abs(ts[i].amount)) ELSE fzero ])

OneBucketPerMonth(trend) ==
  /\ Len(trend) = Cardinality(Months)
  /\ { trend[i].ym : i \in 1..Len(trend) } = Months
  /\ \A i \in 1..Len(trend) :
       /\ trend[i].income = GainsIn(trend[i].ym)
       /\ trend[i].expenses = LossesIn(trend[i].ym)

\* the order of strings by their characters' codes, which < and > on strings
\* and a sort without a comparator use
codeUnit(c) ==
  IF c = " " THEN 32
  ELSE IF c = "-" THEN 45
  ELSE IF isDigit(c) THEN 48 + digitVal(c)
  ELSE IF \E k \in 1..Len(Upper) : Upper[k] = c
    THEN 64 + (CHOOSE k \in 1..Len(Upper) : Upper[k] = c)
  ELSE IF \E k \in 1..Len(Lower) : Lower[k] = c
    THEN 96 + (CHOOSE k \in 1..Len(Lower) : Lower[k] = c)
  ELSE 127

StringLess(a, b) ==
  lexLess([ k \in 1..Len(a) |-> codeUnit(a[k]) ], [ k \in 1..Len(b) |-> codeUnit(b[k]) ])

C22_TrendAscendingByString ==
  LET trend == Trend
  IN  /\ OneBucketPerMonth(trend)
      /\ \A i \in 1..Len(trend) : \A j \in 1..Len(trend) :
           i < j => StringLess(trend[i].ym, trend[j].ym)

(***************************************************************************)
(* C22, amended: the buckets are as above and stand in ascending order of  *)
(* localeCompare on the year-month string, which is the strictly ascending *)
(* order of the strings where they are made of digits and "-", as yyyy-mm  *)
(* is; year-months spelled with letters stand in alphabetical order        *)
(* whatever their case.                                                    *)
(***************************************************************************)
Numeric(ym) == \A k \in 1..Len(ym) : ym[k] = "-" \/ isDigit(ym[k])

C22_TrendAscendingByCollation ==
  LET trend == Trend
  IN  /\ OneBucketPerMonth(trend)
      /\ \A i \in 1..Len(trend) : \A j \in 1..Len(trend) :
           i < j =>
             /\ charRank(trend[i].ym[1]) <= charRank(trend[j].ym[1])
             /\ (Numeric(trend[i].ym) /\ Numeric(trend[j].ym))
                  => StringLess(trend[i].ym, trend[j].ym)
             /\ Head(toLowerCase(trend[i].ym)) # Head(toLowerCase(trend[j].ym))
                  => StringLess(toLowerCase(trend[i].ym), toLowerCase(trend[j].ym))

\* the collection holds, newest first, a transaction of February, one
\* without a date and one of January: the trend lists January, then February
C22_Witness ==
  /\ Len(transactions) = 3
  /\ YearMonth(transactions[1].date) = s_thisMonth
  /\ transactions[2].date = <<>>
  /\ YearMonth(transactions[3].date) = s_lastMonth
  /\ last.op = "setFilterMonth"
  /\ LET trend == Trend
     IN  /\ Len(trend) = 2
         /\ trend[1].ym = s_lastMonth /\ fisPositive(trend[1].expenses)
         /\ trend[2].ym = s_thisMonth /\ fisPositive(trend[2].income)

(***************************************************************************)
(* C21: a file read that loads after it was started is merged into the     *)
(* collection as it is when it loads: the additions, removals and imports  *)
(* made while the read was in flight are kept, the file's rows come first, *)
(* in file order, and the transactions present at that time follow them    *)
(* with their content and order unchanged.                                 *)
(***************************************************************************)
\* the transactions that follow the rows of reading r
Kept(r) == SubSeq(transactions, Len(r.data) + 1, Len(transactions))

C21_ReadMergesIntoCurrentCollection ==
  last.op = "onload" =>
    \A r \in LastReading :
      /\ Len(transactions) = Len(r.data) + Len(prev.transactions)
      /\ Kept(r) = prev.transactions
      /\ \A i \in 1..Len(r.data) :
           /\ transactions[i].description = DescriptionCell(r, r.data[i]).str
           /\ transactions[i].id \notin prev.issued

\* a read of the two-row file loaded after one transaction was removed and
\* another added while it was in flight
C21_Witness ==
  /\ last.op = "onload"
  /\ Len(last.ids) = 2
  /\ idsOf(last.atStart) \ idsOf(prev.transactions) # {}
  /\ idsOf(prev.transactions) \ idsOf(last.atStart) # {}
  /\ Len(transactions) = 3
====
